---- MODULE Spec2Model ----
(***************************************************************************)
(* W-sub: aggregation of proxy node descriptors from remote sources.       *)
(*                                                                         *)
(* The repository holds three copies of the pipeline:                      *)
(*   "NodeMerger"         node_merger.py / node_fetcher.py / node_selector *)
(*   "node/NodeProcessor" node/node_processor.py                           *)
(*   "w-sub"              w-sub.py                                         *)
(* Each component (merge, fetch, select, encode, worker pool, quality      *)
(* filter, extraction, Base64 decoding, single probe, pipeline main, pool  *)
(* tasks, fix_subscription_file) is a state machine of its own; a          *)
(* specification runs one component and leaves the others idle.            *)
(***************************************************************************)
EXTENDS Integers, Sequences, FiniteSets, TLC

VARIABLES
    \* ---- merge_nodes
    mimpl,            \* which merge_nodes runs
    mpc,              \* "start" | "concurrent" | "serial" | "done" | "raised"
    SOURCES,          \* config["SOURCES"]
    results,          \* per source index: the list its fetch_nodes returned
    completed,        \* source indexes in the order their fetches completed
    all_nodes,        \* the list merge_nodes returns / stores in self.nodes
    total_extracted,  \* number of descriptors handed to the dedup step
    mpath,            \* "none" | "concurrent" | "serial": the path that produced all_nodes
    raised,           \* source indexes whose fetch_nodes call raised
    success_count,    \* NodeMerger: sources that returned nodes
    failed_count,     \* NodeMerger: sources that returned nothing or raised
    \* ---- fetch_nodes
    fimpl,            \* which fetch_nodes runs
    fpc,              \* "start" | "loop" | "sleep" | "done" | "raised"
    url_valid,        \* the url is a str starting with http:// or https://
    max_retry,        \* config MAX_RETRY
    script,           \* what the source answers to the 1st, 2nd, ... request
    retry_count,
    fnodes,           \* nodes: the list fetch_nodes returns
    requests_made,    \* number of requests.get calls
    sleeps,           \* number of time.sleep(timeout) calls
    \* ---- latency probing and selection
    simpl,            \* "NodeSelector" | "w-sub"
    spc,              \* "probing" | "tested" | "done" | "skipped"
    cand,             \* nodes: the candidate list (w-sub: self.nodes)
    best_count,       \* config BEST_NODES_COUNT (NodeSelector) / MAX_NODES (w-sub)
    latency,          \* per candidate index: what its probe measures (Inf: unreachable)
    tested,           \* candidate indexes in the order their probes completed
    nodes_with_speed, \* NodeSelector: (node, speed) pairs in collection order
    node_latencies,   \* w-sub: the dict node -> latency, as pairs in insertion order
    best_nodes,       \* the list the selector returns
    \* ---- subscription encoding
    eimpl,            \* which encoder runs
    epc,              \* "start" | "returned" | "returned_none" | "raised" | "decoded"
    enc_nodes,        \* nodes: the list handed to the encoder
    subscription_content, \* what the encoder returns
    output_file,      \* <<>>: no file written; <<c>>: a file of content c
    decoded,          \* the list a reader gets back from the file
    \* ---- worker pools
    pimpl,            \* which pool user runs
    ppc,              \* "start" | "submitting" | "collecting" | "draining" | "serial" | "done" | "raised"
    workers,          \* config WORKERS
    ntasks,           \* number of sources (fetch) or candidates (probe)
    offset,           \* tasks dealt with before the current pool (w-sub: i) / serial loop
    batch_n,          \* number of tasks handed to the current pool
    submitted,        \* tasks submitted to the current pool
    threads,          \* worker threads of the current pool
    queued,           \* submitted tasks no thread has taken yet
    running,          \* tasks being executed
    \* ---- quality filter
    line,             \* the descriptor handed to _should_keep_node
    blacklist_domains,
    blacklist_ips,
    preferred_protocols,
    check_connectivity,
    kpc,              \* "called" | "returned"
    keep,             \* what _should_keep_node returns
    evaluated,        \* the checks _should_keep_node evaluated, in order
    \* ---- _extract_nodes
    ximpl,            \* which _extract_nodes runs
    xpc,              \* "called" | "returned"
    xcontent,         \* content: the text of the source
    decodes,          \* what Base64 decoding of a payload gives (node/NodeProcessor)
    extracted,        \* nodes: the list _extract_nodes returns
    \* ---- _try_decode_base64
    dimpl,            \* which _try_decode_base64 runs
    dpc,              \* "called" | "returned"
    attempts,         \* per decoding attempt: what it gives
    dresult,          \* what _try_decode_base64 returns
    \* ---- one probe
    timpl,            \* which prober runs
    tpc,              \* "probing" | "done"
    infos,            \* per candidate: what the parser made of the descriptor
    connected,        \* candidates for which a connection was attempted
    probed,          \* per candidate: "pending" | "latency" | "unreachable"
    \* ---- the pipeline
    main_pc,          \* "start" | "merged" | "generated" | "probed" | "returned" | "crashed"
    processor_nodes,  \* processor.nodes after merge_nodes
    measured,         \* positions of the nodes with a finite latency
    calls,            \* the stages main has started, in order
    files,            \* the outputs written so far
    \* ---- the tasks of a pool
    limpl,            \* whose pool it is
    lpc,              \* "start" | "pool" | "returned"
    lworkers,         \* config WORKERS
    nnodes,           \* len(self.nodes) / number of candidates or sources
    tstate,           \* per task: "unsubmitted" | "queued" | "running" | "incrementing" | "done"
    result,           \* per task: "none" | "valid" | "failed"
    tmp,              \* per task: the counter value read by "+= 1"
    valid_nodes_count,
    failed_nodes_count,
    latency_keys,     \* the keys of node_latencies (positions in self.nodes)
    shared_writes,    \* <<thread, attribute>> for every write to shared state
    probe_count,      \* per task: how many times it was started
    batches,          \* the slices handed to a pool so far
    \* ---- fix_subscription_file
    fix_pc,           \* "start" | "fixed" | "refixed"
    input_form,       \* what the input file holds: "plaintext" | "base64"
    input_text,       \* the node list the input file holds
    input_file,       \* the content of the input file
    fixed,            \* return value and output file of the first call
    refixed           \* the same for the call on that output file

mergeVars == <<mimpl, mpc, SOURCES, results, completed, all_nodes, total_extracted, mpath,
               raised, success_count, failed_count>>

fetchVars == <<fimpl, fpc, url_valid, max_retry, script, retry_count, fnodes, requests_made, sleeps>>

selectVars == <<simpl, spc, cand, best_count, latency, tested, nodes_with_speed,
                node_latencies, best_nodes>>

encodeVars == <<eimpl, epc, enc_nodes, subscription_content, output_file, decoded>>

poolVars == <<pimpl, ppc, workers, ntasks, offset, batch_n, submitted, threads, queued, running>>

filterVars == <<line, blacklist_domains, blacklist_ips, preferred_protocols,
                check_connectivity, kpc, keep, evaluated>>

extractVars == <<ximpl, xpc, xcontent, decodes, extracted>>

decodeVars == <<dimpl, dpc, attempts, dresult>>

probeVars == <<timpl, tpc, infos, connected, probed>>

mainVars == <<main_pc, processor_nodes, measured, calls, files>>

latencyVars == <<limpl, lpc, lworkers, nnodes, tstate, result, tmp, valid_nodes_count, failed_nodes_count, latency_keys, shared_writes, probe_count, batches>>

fixVars == <<fix_pc, input_form, input_text, input_file, fixed, refixed>>

vars == <<mergeVars, fetchVars, selectVars, encodeVars, poolVars, filterVars, extractVars, decodeVars, probeVars, mainVars, latencyVars, fixVars>>

notMerge == <<fetchVars, selectVars, encodeVars, poolVars, filterVars, extractVars, decodeVars, probeVars, mainVars, latencyVars, fixVars>>

notFetch == <<mergeVars, selectVars, encodeVars, poolVars, filterVars, extractVars, decodeVars, probeVars, mainVars, latencyVars, fixVars>>

notSelect == <<mergeVars, fetchVars, encodeVars, poolVars, filterVars, extractVars, decodeVars, probeVars, mainVars, latencyVars, fixVars>>

notEncode == <<mergeVars, fetchVars, selectVars, poolVars, filterVars, extractVars, decodeVars, probeVars, mainVars, latencyVars, fixVars>>

notPool == <<mergeVars, fetchVars, selectVars, encodeVars, filterVars, extractVars, decodeVars, probeVars, mainVars, latencyVars, fixVars>>

notFilter == <<mergeVars, fetchVars, selectVars, encodeVars, poolVars, extractVars, decodeVars, probeVars, mainVars, latencyVars, fixVars>>

notExtract == <<mergeVars, fetchVars, selectVars, encodeVars, poolVars, filterVars, decodeVars, probeVars, mainVars, latencyVars, fixVars>>

notDecode == <<mergeVars, fetchVars, selectVars, encodeVars, poolVars, filterVars, extractVars, probeVars, mainVars, latencyVars, fixVars>>

notProbe == <<mergeVars, fetchVars, selectVars, encodeVars, poolVars, filterVars, extractVars, decodeVars, mainVars, latencyVars, fixVars>>

notMain == <<mergeVars, fetchVars, selectVars, encodeVars, poolVars, filterVars, extractVars, decodeVars, probeVars, latencyVars, fixVars>>

notLatency == <<mergeVars, fetchVars, selectVars, encodeVars, poolVars, filterVars, extractVars, decodeVars, probeVars, mainVars, fixVars>>

notFix == <<mergeVars, fetchVars, selectVars, encodeVars, poolVars, filterVars, extractVars, decodeVars, probeVars, mainVars, latencyVars>>

(***************************************************************************)
(* Idle components: a specification runs one component, the others rest.    *)
(***************************************************************************)

MergeIdle ==
    /\ mimpl = "none"
    /\ SOURCES = <<>>
    /\ mpc = "idle"
    /\ results = <<>>
    /\ completed = <<>>
    /\ all_nodes = <<>>
    /\ total_extracted = 0
    /\ mpath = "none"
    /\ raised = {}
    /\ success_count = 0
    /\ failed_count = 0

FetchIdle ==
    /\ fimpl = "none"
    /\ fpc = "idle"
    /\ url_valid = TRUE
    /\ max_retry = 0
    /\ script = <<>>
    /\ retry_count = 0
    /\ fnodes = <<>>
    /\ requests_made = 0
    /\ sleeps = 0

SelectIdle ==
    /\ simpl = "none"
    /\ spc = "idle"
    /\ cand = <<>>
    /\ best_count = 0
    /\ latency = <<>>
    /\ tested = <<>>
    /\ nodes_with_speed = <<>>
    /\ node_latencies = <<>>
    /\ best_nodes = <<>>

EncodeIdle ==
    /\ eimpl = "none"
    /\ epc = "idle"
    /\ enc_nodes = <<>>
    /\ subscription_content = <<>>
    /\ output_file = <<>>
    /\ decoded = <<>>


PoolIdle ==
    /\ pimpl = "none"
    /\ ppc = "idle"
    /\ workers = 0
    /\ ntasks = 0
    /\ offset = 0
    /\ batch_n = 0
    /\ submitted = 0
    /\ threads = 0
    /\ queued = 0
    /\ running = 0

FilterIdle ==
    /\ line = <<>>
    /\ blacklist_domains = <<>>
    /\ blacklist_ips = <<>>
    /\ preferred_protocols = <<>>
    /\ check_connectivity = FALSE
    /\ kpc = "idle"
    /\ keep = FALSE
    /\ evaluated = <<>>

ExtractIdle ==
    /\ ximpl = "none"
    /\ xpc = "idle"
    /\ xcontent = <<>>
    /\ decodes = "json"
    /\ extracted = <<>>

DecodeIdle ==
    /\ dimpl = "none"
    /\ dpc = "idle"
    /\ attempts = <<>>
    /\ dresult = <<>>

ProbeIdle ==
    /\ timpl = "none"
    /\ tpc = "idle"
    /\ infos = <<>>
    /\ connected = {}
    /\ probed = <<>>

MainIdle ==
    /\ main_pc = "idle"
    /\ processor_nodes = <<>>
    /\ measured = {}
    /\ calls = <<>>
    /\ files = {}

LatencyIdle ==
    /\ limpl = "none"
    /\ lpc = "idle"
    /\ lworkers = 0
    /\ nnodes = 0
    /\ tstate = <<>>
    /\ result = <<>>
    /\ tmp = <<>>
    /\ valid_nodes_count = 0
    /\ failed_nodes_count = 0
    /\ latency_keys = {}
    /\ shared_writes = {}
    /\ probe_count = <<>>
    /\ batches = <<>>

FixIdle ==
    /\ fix_pc = "idle"
    /\ input_form = "none"
    /\ input_text = <<>>
    /\ input_file = <<>>
    /\ fixed = <<>>
    /\ refixed = <<>>

(***************************************************************************)
(* Generic list helpers                                                    *)
(***************************************************************************)
Range(s) == {s[i] : i \in 1..Len(s)}

NoDuplicates(s) == \A i, j \in 1..Len(s) : i # j => s[i] # s[j]

Count(x, s) == Cardinality({i \in 1..Len(s) : s[i] = x})

RECURSIVE Flatten(_)
Flatten(ss) == IF Len(ss) = 0 THEN <<>> ELSE Head(ss) \o Flatten(Tail(ss))

\* All sequences over S of length at most n.
SeqsUpTo(S, n) == UNION {[1..k -> S] : k \in 0..n}

\* The index of the first occurrence of x in s (0 when absent).
FirstIndex(x, s) ==
    IF x \in Range(s) THEN CHOOSE i \in 1..Len(s) : s[i] = x /\ \A j \in 1..(i-1) : s[j] # x
    ELSE 0

(***************************************************************************)
(* Node descriptors.  A descriptor is the string <protocol>://<payload>;   *)
(* the model keeps the parts of it that the code looks at.  form:          *)
(*   "json"     payload is Base64 of a JSON object with add, port and ps   *)
(*   "nofield"  payload is Base64 of valid JSON without add / port         *)
(*   "userinfo" payload is  <credential>@<host>:<port>#<tag>               *)
(* Two descriptors are the same raw string iff the records are equal.      *)
(***************************************************************************)
Desc(p, f, h, n, t) == [protocol |-> p, form |-> f, host |-> h, port |-> n, tag |-> t]

NodePool ==
    { Desc("trojan", "userinfo", "h1", 443, "a"),
      Desc("trojan", "userinfo", "h1", 443, "b"),
      Desc("vmess", "json", "h1", 443, "a"),
      Desc("vmess", "nofield", "", 0, "a"),
      Desc("hysteria", "userinfo", "h1", 443, "a") }

None == <<>>

\* node/node_processor.py _get_node_key: "<protocol>:<host>:<port>" or None.
_get_node_key(node) ==
    IF node.protocol \in {"vmess", "vless"}
    THEN IF node.form = "json" THEN <<node.protocol, node.host, node.port>> ELSE None
    ELSE IF node.protocol \in {"trojan", "shadowsocks", "ss", "ssr"}
         THEN IF node.form = "userinfo" THEN <<node.protocol, node.host, node.port>> ELSE None
         ELSE None

\* node/node_processor.py _sort_nodes_by_quality: protocol_priority.get(protocol, 2)
get_priority(node) ==
    CASE node.protocol = "vless" -> 10
      [] node.protocol = "vmess" -> 9
      [] node.protocol = "trojan" -> 8
      [] node.protocol \in {"shadowsocks", "ss"} -> 7
      [] node.protocol \in {"hysteria", "hysteria2"} -> 6
      [] node.protocol = "tuic" -> 5
      [] node.protocol = "socks" -> 4
      [] node.protocol \in {"http", "https"} -> 3
      [] OTHER -> 2

\* An insertion that puts x in front of the elements of its own priority.
RECURSIVE InsertBeforeEquals(_, _)
InsertBeforeEquals(x, s) ==
    IF s = <<>> THEN <<x>>
    ELSE IF get_priority(Head(s)) > get_priority(x)
         THEN <<Head(s)>> \o InsertBeforeEquals(x, Tail(s))
         ELSE <<x>> \o s

\* Insert x behind every element whose priority is at least its own.
RECURSIVE InsertByPriority(_, _)
InsertByPriority(x, s) ==
    IF s = <<>> THEN <<x>>
    ELSE IF get_priority(Head(s)) >= get_priority(x)
         THEN <<Head(s)>> \o InsertByPriority(x, Tail(s))
         ELSE <<x>> \o s

RECURSIVE SortInto(_, _)
SortInto(nodes, acc) ==
    IF nodes = <<>> THEN acc
    ELSE SortInto(Tail(nodes), InsertByPriority(Head(nodes), acc))

\* sorted(nodes, key=get_priority, reverse=True): stable, descending.
_sort_nodes_by_quality(nodes) == SortInto(nodes, <<>>)

(***************************************************************************)
(* Deduplication                                                           *)
(***************************************************************************)
Keys(key_attributes) == {kv[1] : kv \in key_attributes}

KeepNode(st, node, node_key) ==
    [all_nodes |-> Append(st.all_nodes, node),
     unique_nodes |-> st.unique_nodes \cup {node},
     key_attributes |-> IF node_key # None
                        THEN st.key_attributes \cup {<<node_key, node>>}
                        ELSE st.key_attributes]

\* The body of the loop "for node in nodes" of node/NodeProcessor.merge_nodes
\* with the elif branch for an unresolved key left out.
merge_node_without_elif(st, node) ==
    IF node \in st.unique_nodes THEN st
    ELSE LET node_key == _get_node_key(node)
         IN  IF node_key # None /\ node_key \notin Keys(st.key_attributes)
             THEN KeepNode(st, node, node_key)
             ELSE st

\* The body of the loop "for node in nodes" of node/NodeProcessor.merge_nodes.
merge_node(st, node) ==
    IF node \in st.unique_nodes THEN st
    ELSE LET node_key == _get_node_key(node)
         IN  IF node_key # None /\ node_key \notin Keys(st.key_attributes)
             THEN KeepNode(st, node, node_key)
             ELSE IF node_key = None
                  THEN KeepNode(st, node, node_key)
                  ELSE st

RECURSIVE merge_loop(_, _)
merge_loop(st, nodes) ==
    IF nodes = <<>> THEN st
    ELSE merge_loop(merge_node(st, Head(nodes)), Tail(nodes))

\* The concurrent path of node/NodeProcessor.merge_nodes after the fetches.
smart_dedup(nodes) ==
    merge_loop([all_nodes |-> <<>>, unique_nodes |-> {}, key_attributes |-> {}],
               nodes).all_nodes

\* _fetch_nodes_serially: raw-string dedup, first occurrence kept.
RECURSIVE serial_loop(_, _)
serial_loop(acc, nodes) ==
    IF nodes = <<>> THEN acc
    ELSE serial_loop(IF Head(nodes) \in Range(acc) THEN acc ELSE Append(acc, Head(nodes)),
                     Tail(nodes))

\* A list that keeps every element: list(set(x)) without the set.
ListKeepingAll(nodes) == {nodes}

\* list(set(nodes)): the distinct elements in an order the hashing decides.
ListOfSet(nodes) ==
    LET S == Range(nodes)
    IN  {f \in [1..Cardinality(S) -> S] : \A i, j \in 1..Cardinality(S) : i # j => f[i] # f[j]}

(***************************************************************************)
(* merge_nodes                                                             *)
(***************************************************************************)
MaxFetched == 2

MergeImpls == {"NodeMerger", "node/NodeProcessor", "w-sub"}

SourceUrls == <<"https://s1", "https://s2">>

\* What one fetch_nodes call can return.  node/NodeProcessor._extract_nodes
\* appends every kept line; the two others return list(set(matches)), and
\* w-sub's patterns do not know hysteria.
FetchResults(impl) ==
    IF impl = "node/NodeProcessor" THEN SeqsUpTo(NodePool, MaxFetched)
    ELSE IF impl = "NodeMerger"
         THEN {r \in SeqsUpTo(NodePool, MaxFetched) : NoDuplicates(r)}
         ELSE {r \in SeqsUpTo({d \in NodePool : d.protocol # "hysteria"}, MaxFetched) :
                  NoDuplicates(r)}

NoResults == [i \in 1..Len(SOURCES) |-> <<>>]

\* executor.map replaced by as_completed: the lists as the tasks completed.
ResultsAsCompleted == Flatten([i \in 1..Len(completed) |-> results[completed[i]]])

\* The fetched lists, in source order and in completion order.
InSourceOrder == Flatten([i \in 1..Len(SOURCES) |-> results[i]])
InCompletionOrder == Flatten([i \in 1..Len(completed) |-> results[completed[i]]])

MergeInit ==
    /\ mimpl \in MergeImpls
    /\ SOURCES \in {SubSeq(SourceUrls, 1, k) : k \in 0..Len(SourceUrls)}
    /\ mpc = "start"
    /\ results = [i \in 1..Len(SOURCES) |-> <<>>]
    /\ completed = <<>>
    /\ all_nodes = <<>>
    /\ total_extracted = 0
    /\ mpath = "none"
    /\ raised = {}
    /\ success_count = 0
    /\ failed_count = 0

\* merge_nodes is entered: NodeMerger and node/NodeProcessor return [] at once
\* when no source is configured.
MergeBegin ==
    /\ mpc = "start"
    /\ IF mimpl # "w-sub" /\ SOURCES = <<>>
       THEN mpc' = "done"
       ELSE mpc' = "concurrent"
    /\ UNCHANGED <<mimpl, SOURCES, results, completed, all_nodes, total_extracted, mpath,
                   raised, success_count, failed_count>>
    /\ UNCHANGED notMerge

\* A fetch_nodes call ends: it returns a list, or it raises (a MAX_RETRY or
\* TIMEOUT of the wrong type fails outside its try block).  Only NodeMerger
\* has a handler per source; the two other copies are modelled with fetches
\* that return.
FetchEnds(i) ==
    \/ /\ \E r \in FetchResults(mimpl) : results' = [results EXCEPT ![i] = r]
       /\ UNCHANGED raised
    \/ /\ mimpl = "NodeMerger"
       /\ raised' = raised \cup {i}
       /\ UNCHANGED results

\* One pooled fetch_nodes task completes.
FetchTaskDone(i) ==
    /\ mpc = "concurrent"
    /\ i \in 1..Len(SOURCES)
    /\ i \notin Range(completed)
    /\ FetchEnds(i)
    /\ completed' = Append(completed, i)
    /\ UNCHANGED <<mimpl, mpc, SOURCES, all_nodes, total_extracted, mpath,
                   success_count, failed_count>>
    /\ UNCHANGED notMerge

\* The thread pool cannot be created or a task cannot be submitted (WORKERS = 0,
\* no thread can be started): what the tasks fetched is lost.  NodeMerger and
\* node/NodeProcessor catch it and fetch serially; w-sub has no handler.
DispatchFault ==
    /\ mpc = "concurrent"
    /\ Len(SOURCES) > 0
    /\ mpc' = IF mimpl = "w-sub" THEN "raised" ELSE "serial"
    /\ results' = NoResults
    /\ completed' = <<>>
    /\ raised' = {}
    /\ UNCHANGED <<mimpl, SOURCES, all_nodes, total_extracted, mpath,
                   success_count, failed_count>>
    /\ UNCHANGED notMerge

\* The serial fallback fetches the next source in configuration order.
SerialFetch ==
    /\ mpc = "serial"
    /\ Len(completed) < Len(SOURCES)
    /\ LET i == Len(completed) + 1
       IN  /\ FetchEnds(i)
           /\ completed' = Append(completed, i)
    /\ UNCHANGED <<mimpl, mpc, SOURCES, all_nodes, total_extracted, mpath,
                   success_count, failed_count>>
    /\ UNCHANGED notMerge

\* The lists merge_nodes may return once every fetch has returned.
MergeOutputs ==
    IF mimpl = "node/NodeProcessor"
    THEN IF mpc = "concurrent"
         THEN {_sort_nodes_by_quality(smart_dedup(InSourceOrder))}
         ELSE {_sort_nodes_by_quality(serial_loop(<<>>, InSourceOrder))}
    ELSE IF mimpl = "NodeMerger"
         THEN ListOfSet(InCompletionOrder)
         ELSE ListOfSet(InSourceOrder)

\* "if nodes:" counts a source as success; "else" and the handler of a raised
\* fetch count it as failed.
Succeeded == {i \in 1..Len(SOURCES) : i \notin raised /\ results[i] # <<>>}

\* A count of failures that forgets the sources that returned nothing.
FailedRaisedOnly == {i \in 1..Len(SOURCES) : i \in raised}

Failed == {i \in 1..Len(SOURCES) : i \in raised \/ results[i] = <<>>}

\* Every fetch has ended: account, deduplicate (and sort), store and return.
MergeCollect ==
    /\ mpc \in {"concurrent", "serial"}
    /\ Len(completed) = Len(SOURCES)
    /\ all_nodes' \in MergeOutputs
    /\ total_extracted' = Len(InSourceOrder)
    /\ mpath' = mpc
    /\ mpc' = "done"
    /\ results' = NoResults
    /\ raised' = {}
    /\ success_count' = IF mimpl = "NodeMerger" THEN Cardinality(Succeeded) ELSE success_count
    /\ failed_count' = IF mimpl = "NodeMerger" THEN Cardinality(Failed) ELSE failed_count
    /\ UNCHANGED <<mimpl, SOURCES, completed>>
    /\ UNCHANGED notMerge

(***************************************************************************)
(* fetch_nodes                                                             *)
(***************************************************************************)
MaxRetryCfg == 2

FetchImpls == {"NodeFetcher", "node/NodeProcessor", "w-sub"}

\* What one request can end in.  "RequestException": requests.get raises
\* (timeout, connection error); "Exception": anything else raised inside the
\* try block; "bad_status": a 4xx/5xx answer; "ok_empty": status 200 and no
\* node extracted; "ok_nodes": status 200 and the nodes extracted.
Failures == {"RequestException", "Exception", "bad_status"}

ExtractedSamples ==
    { <<Desc("trojan", "userinfo", "h1", 443, "a")>>,
      <<Desc("vmess", "json", "h1", 443, "a"), Desc("trojan", "userinfo", "h1", 443, "b")>> }

Outcomes ==
    {[kind |-> k, nodes |-> <<>>] : k \in Failures \cup {"ok_empty"}}
        \cup {[kind |-> "ok_nodes", nodes |-> r] : r \in ExtractedSamples}

\* The answer to the i-th request; a source asked more often than the script
\* is long keeps failing.
OutcomeAt(i) ==
    IF i <= Len(script) THEN script[i] ELSE [kind |-> "RequestException", nodes |-> <<>>]

\* The except clauses around the request: "except Exception" in all three
\* (NodeFetcher has "except requests.exceptions.RequestException" before it).
Caught(impl, kind) == kind \in {"RequestException", "Exception"}

\* "while retry_count < max_retry": one attempt short.
LoopContinuesOffByOne(rc, mr) == rc < mr

\* "while retry_count <= max_retry + 1": one attempt too many.
LoopContinuesOneMore(rc, mr) == rc <= mr + 1

\* while retry_count <= max_retry
LoopContinues(rc, mr) == rc <= mr

FetchInit ==
    /\ fimpl \in FetchImpls
    /\ fpc = "start"
    /\ url_valid \in (IF fimpl = "NodeFetcher" THEN BOOLEAN ELSE {TRUE})
    /\ max_retry \in 0..MaxRetryCfg
    /\ script \in [1..(MaxRetryCfg + 1) -> Outcomes]
    /\ retry_count = 0
    /\ fnodes = <<>>
    /\ requests_made = 0
    /\ sleeps = 0

\* fetch_nodes is entered; NodeFetcher returns [] for an invalid url.
FetchBegin ==
    /\ fpc = "start"
    /\ fpc' = IF fimpl = "NodeFetcher" /\ ~url_valid THEN "done" ELSE "loop"
    /\ UNCHANGED <<fimpl, url_valid, max_retry, script, retry_count, fnodes, requests_made, sleeps>>
    /\ UNCHANGED notFetch

\* After a failed attempt: retry_count += 1, then sleep when an attempt is left
\* (NodeFetcher, w-sub) or just log (node/NodeProcessor).
AfterFailure ==
    /\ retry_count' = retry_count + 1
    /\ fpc' = IF fimpl # "node/NodeProcessor" /\ LoopContinues(retry_count + 1, max_retry)
              THEN "sleep" ELSE "loop"

\* One pass of the while loop: the request and what the code does with the answer.
Attempt ==
    /\ fpc = "loop"
    /\ LoopContinues(retry_count, max_retry)
    /\ requests_made' = requests_made + 1
    /\ LET o == OutcomeAt(requests_made + 1)
           raises == o.kind \in {"RequestException", "Exception"}
                        \/ (o.kind = "bad_status" /\ fimpl = "node/NodeProcessor")
           kind == IF o.kind = "bad_status" THEN "RequestException" ELSE o.kind
       IN  IF raises
           THEN IF Caught(fimpl, kind)
                THEN AfterFailure /\ UNCHANGED fnodes
                ELSE fpc' = "raised" /\ UNCHANGED <<retry_count, fnodes>>
           ELSE IF o.kind = "bad_status"
                THEN AfterFailure /\ UNCHANGED fnodes
                ELSE IF o.kind = "ok_nodes" \/ fimpl # "node/NodeProcessor"
                     THEN /\ fnodes' = o.nodes        \* break / return new_nodes
                          /\ fpc' = "done"
                          /\ UNCHANGED retry_count
                     ELSE AfterFailure /\ fnodes' = o.nodes
    /\ UNCHANGED <<fimpl, url_valid, max_retry, script, sleeps>>
    /\ UNCHANGED notFetch

\* time.sleep(timeout) between two attempts.
Backoff ==
    /\ fpc = "sleep"
    /\ sleeps' = sleeps + 1
    /\ fpc' = "loop"
    /\ UNCHANGED <<fimpl, url_valid, max_retry, script, retry_count, fnodes, requests_made>>
    /\ UNCHANGED notFetch

\* The loop condition fails: return nodes.
FetchGiveUp ==
    /\ fpc = "loop"
    /\ ~LoopContinues(retry_count, max_retry)
    /\ fpc' = "done"
    /\ fnodes' = IF fimpl = "w-sub" THEN <<>> ELSE fnodes
    /\ UNCHANGED <<fimpl, url_valid, max_retry, script, retry_count, requests_made, sleeps>>
    /\ UNCHANGED notFetch

(***************************************************************************)
(* Properties of fetch_nodes                                               *)
(***************************************************************************)
\* The first k-1 answers are failures and the k-th carries nodes.
FailsThenSucceedsAt(k) ==
    /\ k \in 1..Len(script)
    /\ \A i \in 1..(k-1) : script[i].kind \in Failures
    /\ script[k].kind = "ok_nodes"

\* C9: when the requests fail on attempts 1..k-1 and attempt k <= MAX_RETRY+1
\* succeeds with a non-empty extraction, fetch_nodes returns the nodes of
\* attempt k.
C9_RetryYieldsNodes ==
    \A k \in 1..Len(script) :
        (fpc = "done" /\ (fimpl = "NodeFetcher" => url_valid)
            /\ k <= max_retry + 1 /\ FailsThenSucceedsAt(k))
        => (fnodes = script[k].nodes /\ fnodes # <<>>)

\* MAX_RETRY = 2: two failures, then the third attempt succeeds.
C9_Witness ==
    /\ fpc = "done"
    /\ max_retry = 2
    /\ FailsThenSucceedsAt(3)
    /\ requests_made = 3
    /\ fnodes = script[3].nodes

\* C10: fetch_nodes issues at most MAX_RETRY+1 requests and then terminates,
\* returning a list (empty when every attempt failed) without raising.
C10_BoundedAttempts ==
    /\ [](/\ requests_made <= max_retry + 1
          /\ fpc # "raised"
          /\ (fpc = "done" /\ \A i \in 1..requests_made : script[i].kind \in Failures)
                => fnodes = <<>>)
    /\ <>(fpc = "done")

\* Every one of the MAX_RETRY+1 = 3 attempts failed.
C10_Witness ==
    /\ fpc = "done"
    /\ max_retry = 2
    /\ requests_made = 3
    /\ \A i \in 1..3 : script[i].kind \in Failures
    /\ fnodes = <<>>

\* C11: fetch_nodes stops only when an attempt extracted a non-empty list or
\* when MAX_RETRY+1 attempts have been made; a success status with zero
\* nodes is followed by another attempt while attempts remain.
C11_StopsOnlyOnNodesOrExhaustion ==
    (fpc = "done" /\ (fimpl = "NodeFetcher" => url_valid)) =>
        \/ fnodes # <<>>
        \/ requests_made = max_retry + 1

\* C12: between every two consecutive attempts there is exactly one backoff
\* wait, and no wait follows the last attempt.
C12_OneBackoffBetweenAttempts ==
    /\ requests_made = 0 => sleeps = 0
    /\ requests_made > 0 => sleeps \in {requests_made - 1, requests_made}
    /\ (fpc = "done" /\ requests_made > 0) => sleeps = requests_made - 1

(***************************************************************************)
(* Latency probing and selection of the best nodes                         *)
(***************************************************************************)
MaxBest == 2

\* float('inf') / None: the probe found the node unreachable.
Inf == 999999

MIN_VALID_NODES == 10

Latencies == {10, 50}

SelectImpls == {"NodeSelector", "w-sub"}

NodeA == Desc("trojan", "userinfo", "h1", 443, "a")
NodeB == Desc("vmess", "json", "h2", 443, "a")
NodeC == Desc("shadowsocks", "userinfo", "h3", 443, "a")

SelectPool == {NodeA, NodeB, NodeC}

\* The candidate lists: what merge_nodes returns, so no descriptor twice.
CandidateLists == {c \in SeqsUpTo(SelectPool, Cardinality(SelectPool)) : NoDuplicates(c)}

\* "if speed is not None" / "if latency < float('inf')" without the test.
ReachableAlways(l) == TRUE

\* "if speed is not None" (NodeSelector), "if latency < float('inf')" (w-sub)
Reachable(l) == l < Inf

\* Insert the pair behind every pair whose latency is at most its own.
RECURSIVE InsertByLatency(_, _)
InsertByLatency(x, s) ==
    IF s = <<>> THEN <<x>>
    ELSE IF Head(s)[2] <= x[2]
         THEN <<Head(s)>> \o InsertByLatency(x, Tail(s))
         ELSE <<x>> \o s

RECURSIVE SortPairsInto(_, _)
SortPairsInto(pairs, acc) ==
    IF pairs = <<>> THEN acc
    ELSE SortPairsInto(Tail(pairs), InsertByLatency(Head(pairs), acc))

\* The pairs as they are: the sort left out.
Unsorted(pairs) == pairs

\* list.sort(key=lambda x: x[1]) / sorted(items, key=lambda x: x[1]): stable.
SortByLatency(pairs) == SortPairsInto(pairs, <<>>)

Min(a, b) == IF a <= b THEN a ELSE b

\* [node for node, speed in pairs[:n]]
FirstNodes(pairs, n) == [i \in 1..Min(n, Len(pairs)) |-> pairs[i][1]]

\* The (node, latency) pairs of the reachable candidates, in candidate order.
RECURSIVE ReachablePairs(_)
ReachablePairs(i) ==
    IF i > Len(cand) THEN <<>>
    ELSE (IF Reachable(latency[i]) THEN <<<<cand[i], latency[i]>>>> ELSE <<>>)
            \o ReachablePairs(i + 1)

SelectInit ==
    /\ simpl \in SelectImpls
    /\ spc = "probing"
    /\ cand \in CandidateLists
    /\ best_count \in 1..MaxBest
    /\ latency \in [1..Len(cand) -> Latencies \cup {Inf}]
    /\ tested = <<>>
    /\ nodes_with_speed = <<>>
    /\ node_latencies = <<>>
    /\ best_nodes = <<>>

\* One probe task completes.  NodeSelector collects it at once (as_completed)
\* and keeps the pair when the node was reachable; w-sub's executor.map holds
\* the result until the batch is complete.
ProbeDone(i) ==
    /\ spc = "probing"
    /\ i \in 1..Len(cand)
    /\ i \notin Range(tested)
    /\ tested' = Append(tested, i)
    /\ nodes_with_speed' =
          IF simpl = "NodeSelector" /\ Reachable(latency[i])
          THEN Append(nodes_with_speed, <<cand[i], latency[i]>>)
          ELSE nodes_with_speed
    /\ UNCHANGED <<simpl, spc, cand, best_count, latency, node_latencies, best_nodes>>
    /\ UNCHANGED notSelect

\* w-sub test_all_nodes_latency: the results of the batch, in node order, go
\* into node_latencies when the latency is finite.
BatchCollected ==
    /\ simpl = "w-sub"
    /\ spc = "probing"
    /\ Len(tested) = Len(cand)
    /\ node_latencies' = ReachablePairs(1)
    /\ spc' = "tested"
    /\ UNCHANGED <<simpl, cand, best_count, latency, tested, nodes_with_speed, best_nodes>>
    /\ UNCHANGED notSelect

\* NodeSelector.test_and_select_best_nodes after the probes: sort, return all
\* the nodes when none was reachable, else the first BEST_NODES_COUNT.
SelectBest ==
    /\ simpl = "NodeSelector"
    /\ spc = "probing"
    /\ Len(tested) = Len(cand)
    /\ nodes_with_speed' = SortByLatency(nodes_with_speed)
    /\ best_nodes' = IF nodes_with_speed = <<>>
                     THEN cand
                     ELSE FirstNodes(SortByLatency(nodes_with_speed), best_count)
    /\ spc' = "done"
    /\ UNCHANGED <<simpl, cand, best_count, latency, tested, node_latencies>>
    /\ UNCHANGED notSelect

\* w-sub main: without any finite latency no best-nodes list is built.
NoBestNodes ==
    /\ simpl = "w-sub"
    /\ spc = "tested"
    /\ node_latencies = <<>>
    /\ spc' = "skipped"
    /\ UNCHANGED <<simpl, cand, best_count, latency, tested, nodes_with_speed,
                   node_latencies, best_nodes>>
    /\ UNCHANGED notSelect

\* w-sub filter_fastest_nodes, which main calls when node_latencies is not
\* empty: the first MAX_NODES of node_latencies by latency.
filter_fastest_nodes ==
    /\ simpl = "w-sub"
    /\ spc = "tested"
    /\ node_latencies # <<>>
    /\ best_nodes' = FirstNodes(SortByLatency(node_latencies), best_count)
    /\ spc' = "done"
    /\ UNCHANGED <<simpl, cand, best_count, latency, tested, nodes_with_speed, node_latencies>>
    /\ UNCHANGED notSelect

(***************************************************************************)
(* Properties of the selector                                              *)
(***************************************************************************)
\* What the probe of a candidate measured.
LatencyOf(node) == latency[FirstIndex(node, cand)]

NumFinite == Cardinality({i \in 1..Len(cand) : latency[i] < Inf})

\* C4: the list the selector returns holds only input candidates and has at
\* most the configured maximum of entries, whatever the probes measured.
C4_SubsetWithinMaximum ==
    spc = "done" =>
        /\ Range(best_nodes) \subseteq Range(cand)
        /\ Len(best_nodes) <= best_count

\* C6: the output is in non-decreasing order of measured latency whatever the
\* completion order of the probes; A=50, B=10, C=unreachable, N=2 gives [B, A].
C6_OrderedByLatency ==
    spc = "done" =>
        /\ \A i, j \in 1..Len(best_nodes) :
              i < j => LatencyOf(best_nodes[i]) <= LatencyOf(best_nodes[j])
        /\ (cand = <<NodeA, NodeB, NodeC>> /\ latency = <<50, 10, Inf>> /\ best_count = 2)
              => best_nodes = <<NodeB, NodeA>>

\* The probe of A completed before the probe of B, and B is ranked first.
C6_Witness ==
    /\ spc = "done"
    /\ simpl = "NodeSelector"
    /\ cand = <<NodeA, NodeB, NodeC>>
    /\ latency = <<50, 10, Inf>>
    /\ best_count = 2
    /\ tested = <<1, 2, 3>>
    /\ best_nodes = <<NodeB, NodeA>>

\* The whole candidate list ranked with unreachable as +infinity.
RankedWithUnreachable ==
    SortByLatency([i \in 1..Len(cand) |-> <<cand[i], latency[i]>>])

C8_PriorityFallback ==
    (spc = "done" /\ NumFinite < MIN_VALID_NODES) =>
        best_nodes = SubSeq(_sort_nodes_by_quality(cand), 1, Min(best_count, Len(cand)))

(***************************************************************************)
(* Properties of merge_nodes                                               *)
(***************************************************************************)
MergeReturns == mpc \in {"concurrent", "serial"} /\ mpc' = "done"

\* C1: the list merge_nodes returns (NodeMerger, node/NodeProcessor, w-sub)
\* holds no raw descriptor string twice, on the concurrent path and on the
\* serial fallback path.
C1_NoEqualRawStrings == mpc = "done" => NoDuplicates(all_nodes)

\* A serial-fallback run in which duplicates were fetched and dropped.
C1_Witness ==
    /\ mpc = "done"
    /\ mpath = "serial"
    /\ Len(all_nodes) >= 2
    /\ total_extracted > Len(all_nodes)

\* The first descriptor of a list that resolves to the key.
FirstWithKey(key, nodes) ==
    nodes[CHOOSE i \in 1..Len(nodes) :
              /\ _get_node_key(nodes[i]) = key
              /\ \A j \in 1..(i-1) : _get_node_key(nodes[j]) # key]

\* C2: in the output of node/NodeProcessor.merge_nodes no two descriptors
\* resolve to the same identity key, and the survivor of every resolved
\* identity is the first one seen in source-then-line order, on the concurrent
\* path and on the serial fallback alike.
C2_OneDescriptorPerIdentity ==
    [][(mimpl = "node/NodeProcessor" /\ MergeReturns) =>
          /\ \A i, j \in 1..Len(all_nodes') :
                (i # j /\ _get_node_key(all_nodes'[i]) # None)
                    => _get_node_key(all_nodes'[i]) # _get_node_key(all_nodes'[j])
          /\ \A i \in 1..Len(all_nodes') :
                _get_node_key(all_nodes'[i]) # None
                    => all_nodes'[i] = FirstWithKey(_get_node_key(all_nodes'[i]), InSourceOrder)
      ]_vars

\* C3: every fetched descriptor whose identity cannot be resolved appears
\* exactly once in the output of node/NodeProcessor.merge_nodes.
C3_UnresolvedKeptOnce ==
    [][(mimpl = "node/NodeProcessor" /\ MergeReturns) =>
          \A d \in Range(InSourceOrder) :
              _get_node_key(d) = None => Count(d, all_nodes') = 1
      ]_vars

\* A concurrent run that dropped something and returned an unresolved
\* descriptor next to a resolved one.
C3_Witness ==
    /\ mpc = "done"
    /\ mimpl = "node/NodeProcessor"
    /\ mpath = "concurrent"
    /\ total_extracted > Len(all_nodes)
    /\ \E d, e \in Range(all_nodes) : _get_node_key(d) = None /\ _get_node_key(e) # None

\* The descriptors of every source, source after source, whatever the order
\* in which the fetches ended.
PerSourceLists == Flatten([i \in 1..Len(SOURCES) |-> results[i]])

\* C13: NodeMerger.merge_nodes accounts every configured source exactly once,
\* as success when its fetch returned nodes and as failed when it returned
\* nothing or raised, so the two counts add up to the number of sources; the
\* nodes of the other sources are all in the output.
C13_EverySourceAccountedOnce ==
    [][(mimpl = "NodeMerger" /\ mpc # "done" /\ mpc' = "done") =>
          /\ success_count' + failed_count' = Len(SOURCES)
          /\ success_count' = Cardinality({i \in 1..Len(SOURCES) : results[i] # <<>>})
          /\ Range(all_nodes') = Range(PerSourceLists)
      ]_vars

\* One source gave nodes, the other failed, and the nodes were returned.
C13_Witness ==
    /\ mimpl = "NodeMerger"
    /\ mpc = "done"
    /\ Len(SOURCES) = 2
    /\ success_count = 1
    /\ failed_count = 1
    /\ all_nodes # <<>>

\* C14: when the concurrent dispatch itself raises, merge_nodes fetches
\* every source one at a time in configuration order and returns every
\* descriptor those fetches returned; the fault does not reach the caller.
C14_FaultFallsBackToSerial ==
    [][/\ (mpc = "concurrent" /\ mpc' \notin {"concurrent", "done"}) => mpc' = "serial"
       /\ (mpc = "serial" /\ mpc' = "serial" /\ completed' # completed)
              => completed' = Append(completed, Len(completed) + 1)
       /\ (mpc = "serial" /\ mpc' = "done") => Range(all_nodes') = Range(PerSourceLists)
      ]_vars

\* C15: for fixed per-source fetch results the set of descriptors that
\* merge_nodes returns does not depend on the order in which the concurrent
\* fetch tasks complete: it is a function of the per-source lists alone.
C15_CompletionOrderIrrelevant ==
    [][(mpc = "concurrent" /\ mpc' = "done") =>
          /\ mimpl = "NodeMerger" => Range(all_nodes') = Range(PerSourceLists)
          /\ mimpl = "node/NodeProcessor"
                => Range(all_nodes') = Range(smart_dedup(PerSourceLists))
      ]_vars

\* The second source completed first, and the two sources brought
\* descriptors of which the deduplication dropped one.
C15_Witness ==
    /\ mpc = "done"
    /\ mpath = "concurrent"
    /\ mimpl = "node/NodeProcessor"
    /\ completed = <<2, 1>>
    /\ total_extracted = 2
    /\ Len(all_nodes) = 1

\* The list node/NodeProcessor.merge_nodes hands to the sort: the concurrent
\* path's smart dedup, or the list of the serial fallback.
Deduplicated ==
    IF mpc = "concurrent" THEN smart_dedup(InSourceOrder)
    ELSE serial_loop(<<>>, InSourceOrder)

\* C28: the list node/NodeProcessor.merge_nodes returns is a permutation of
\* the deduplicated nodes, ordered by non-increasing protocol priority, and
\* descriptors of equal priority keep their first-seen relative order.
C28_StablePriorityOrder ==
    [][(mimpl = "node/NodeProcessor" /\ MergeReturns) =>
          LET out == all_nodes'
          IN  /\ Len(out) = Len(Deduplicated)
              /\ \A d \in Range(out) \cup Range(Deduplicated) :
                    Count(d, out) = Count(d, Deduplicated)
              /\ \A i, j \in 1..Len(out) :
                    i < j =>
                        /\ get_priority(out[i]) >= get_priority(out[j])
                        /\ get_priority(out[i]) = get_priority(out[j])
                              => FirstIndex(out[i], Deduplicated)
                                    < FirstIndex(out[j], Deduplicated)
      ]_vars

\* A run that returned two descriptors of one priority in front of one of a
\* lower priority.
C28_Witness ==
    /\ mpc = "done"
    /\ mimpl = "node/NodeProcessor"
    /\ Len(all_nodes) >= 3
    /\ get_priority(all_nodes[1]) = get_priority(all_nodes[2])
    /\ get_priority(all_nodes[2]) > get_priority(all_nodes[3])

(***************************************************************************)
(* Subscription encoding.  A string is the sequence of its code points, a  *)
(* bytes object the sequence of its bytes.                                 *)
(***************************************************************************)
MaxDescLen == 2

MaxList == 2

LF == 10

CR == 13

\* Characters of a descriptor: no white space (the extraction patterns are
\* [^\s]+, the line-based extraction strips); one ASCII letter and one
\* character that takes two bytes in UTF-8.
DescChars == {97, 233}

EncodeImpls == {"w-sub", "NodeSelector", "node/NodeProcessor"}

Descriptors == SeqsUpTo(DescChars, MaxDescLen) \ {<<>>}

DescriptorLists == SeqsUpTo(Descriptors, MaxList)

\* The separator each encoder joins with.
LineSeparator(impl) == IF impl = "node/NodeProcessor" THEN <<CR, LF>> ELSE <<LF>>

\* A join that forgets the separator.
concat(sep, list) == Flatten(list)

RECURSIVE join(_, _)
\* sep.join(list)
join(sep, list) ==
    IF list = <<>> THEN <<>>
    ELSE IF Len(list) = 1 THEN list[1]
    ELSE list[1] \o sep \o join(sep, Tail(list))

\* The UTF-8 bytes of one code point below 2048.
utf8_char(cp) ==
    IF cp < 128 THEN <<cp>>
    ELSE <<192 + (cp \div 64), 128 + (cp % 64)>>

\* str.encode('utf-8')
utf8_encode(str) == Flatten([i \in 1..Len(str) |-> utf8_char(str[i])])

RECURSIVE utf8_decode(_)
\* bytes.decode('utf-8') of one- and two-byte sequences
utf8_decode(bytes) ==
    IF bytes = <<>> THEN <<>>
    ELSE IF bytes[1] < 128 THEN <<bytes[1]>> \o utf8_decode(Tail(bytes))
    ELSE <<(bytes[1] - 192) * 64 + (bytes[2] - 128)>> \o utf8_decode(Tail(Tail(bytes)))

\* The ASCII code of the Base64 digit with value v; 64 stands for the padding.
b64_digit(v) ==
    IF v < 26 THEN 65 + v
    ELSE IF v < 52 THEN 71 + v
    ELSE IF v < 62 THEN v - 4
    ELSE IF v = 62 THEN 43
    ELSE IF v = 63 THEN 47
    ELSE 61

\* The value of the Base64 digit with ASCII code c.
b64_value(c) ==
    IF c = 61 THEN 64
    ELSE IF c = 43 THEN 62
    ELSE IF c = 47 THEN 63
    ELSE IF c >= 97 THEN c - 71
    ELSE IF c >= 65 THEN c - 65
    ELSE c + 4

RECURSIVE b64encode(_)
\* base64.b64encode(bytes), as the sequence of the ASCII codes it returns
b64encode(bytes) ==
    IF bytes = <<>> THEN <<>>
    ELSE IF Len(bytes) = 1 THEN
        << b64_digit(bytes[1] \div 4), b64_digit((bytes[1] % 4) * 16), 61, 61 >>
    ELSE IF Len(bytes) = 2 THEN
        << b64_digit(bytes[1] \div 4),
           b64_digit((bytes[1] % 4) * 16 + (bytes[2] \div 16)),
           b64_digit((bytes[2] % 16) * 4), 61 >>
    ELSE
        << b64_digit(bytes[1] \div 4),
           b64_digit((bytes[1] % 4) * 16 + (bytes[2] \div 16)),
           b64_digit((bytes[2] % 16) * 4 + (bytes[3] \div 64)),
           b64_digit(bytes[3] % 64) >> \o b64encode(SubSeq(bytes, 4, Len(bytes)))

RECURSIVE b64decode(_)
\* base64.b64decode(text) of well-formed, padded text
b64decode(text) ==
    IF text = <<>> THEN <<>>
    ELSE LET a == b64_value(text[1])
             b == b64_value(text[2])
             c == b64_value(text[3])
             d == b64_value(text[4])
             first  == a * 4 + (b \div 16)
             second == (b % 16) * 16 + (c \div 4)
             third  == (c % 4) * 64 + d
         IN  IF c = 64 THEN <<first>>
             ELSE IF d = 64 THEN <<first, second>>
             ELSE <<first, second, third>> \o b64decode(SubSeq(text, 5, Len(text)))

\* The least index at which sep occurs in str, 0 if it does not occur.
find(str, sep) ==
    LET at == {i \in 1..(Len(str) - Len(sep) + 1) : SubSeq(str, i, i + Len(sep) - 1) = sep}
    IN  IF at = {} THEN 0 ELSE CHOOSE i \in at : \A j \in at : i <= j

RECURSIVE split(_, _)
\* str.split(sep): always at least one piece, '' for the empty string
split(str, sep) ==
    LET i == find(str, sep)
    IN  IF i = 0 THEN <<str>>
        ELSE <<SubSeq(str, 1, i - 1)>> \o split(SubSeq(str, i + Len(sep), Len(str)), sep)

\* base64.b64encode(sep.join(nodes).encode('utf-8')).decode('utf-8')
Encoded(impl, nodes) == b64encode(utf8_encode(join(LineSeparator(impl), nodes)))

\* What a reader of the subscription computes from its content.
Decoded(impl, content) == split(utf8_decode(b64decode(content)), LineSeparator(impl))

EncodeInit ==
    /\ eimpl \in EncodeImpls
    /\ enc_nodes \in DescriptorLists
    /\ epc = "start"
    /\ subscription_content = None
    /\ output_file = <<>>
    /\ decoded = None

\* w-sub generate_subscription: the content is written and returned; open()
\* or write() may raise, and the exception leaves the function.
generate_subscription ==
    /\ eimpl = "w-sub"
    /\ epc = "start"
    /\ \/ /\ subscription_content' = Encoded(eimpl, enc_nodes)
          /\ output_file' = <<subscription_content'>>
          /\ epc' = "returned"
       \/ /\ epc' = "raised"
          /\ UNCHANGED <<subscription_content, output_file>>
    /\ UNCHANGED <<eimpl, enc_nodes, decoded>>
    /\ UNCHANGED notEncode

\* NodeSelector.generate_best_subscription: on an exception an empty file is
\* attempted and None is returned.
generate_best_subscription ==
    /\ eimpl = "NodeSelector"
    /\ epc = "start"
    /\ \/ /\ subscription_content' = Encoded(eimpl, enc_nodes)
          /\ output_file' = <<subscription_content'>>
          /\ epc' = "returned"
       \/ /\ epc' = "returned_none"
          /\ output_file' \in {<<>>, << <<>> >>}
          /\ UNCHANGED subscription_content
    /\ UNCHANGED <<eimpl, enc_nodes, decoded>>
    /\ UNCHANGED notEncode

\* node/NodeProcessor.generate_subscription_file: nothing is produced for an
\* empty list; a failed write returns None.
generate_subscription_file ==
    /\ eimpl = "node/NodeProcessor"
    /\ epc = "start"
    /\ IF enc_nodes = <<>>
       THEN /\ epc' = "returned_none"
            /\ UNCHANGED <<subscription_content, output_file>>
       ELSE \/ /\ subscription_content' = Encoded(eimpl, enc_nodes)
               /\ output_file' = <<subscription_content'>>
               /\ epc' = "returned"
            \/ /\ epc' = "returned_none"
               /\ UNCHANGED <<subscription_content, output_file>>
    /\ UNCHANGED <<eimpl, enc_nodes, decoded>>
    /\ UNCHANGED notEncode

\* A client decodes the content of the subscription file and splits it on the
\* separator of the encoder.
ReadSubscription ==
    /\ epc = "returned"
    /\ decoded' = Decoded(eimpl, output_file[1])
    /\ epc' = "decoded"
    /\ UNCHANGED <<eimpl, enc_nodes, subscription_content, output_file>>
    /\ UNCHANGED notEncode

(***************************************************************************)
(* Properties of the subscription encoding                                 *)
(***************************************************************************)

\* C5 as claimed: for any list of descriptors, the empty list included,
\* decoding the produced content and splitting it on the encoder's line
\* separator yields the original list.
C5_RoundTripAnyList ==
    epc = "decoded" => decoded = enc_nodes

\* C5: for any non-empty list of descriptors, Base64-decoding the content
\* an encoder produced and splitting it on that encoder's line separator
\* yields exactly the original list in the original order.
C5_RoundTripNonEmpty ==
    (epc = "decoded" /\ enc_nodes # <<>>) =>
        /\ decoded = enc_nodes
        /\ output_file = <<subscription_content>>

\* Two different descriptors, one with a two-byte character, joined by
\* '\r\n' and read back.
C5_Witness ==
    /\ epc = "decoded"
    /\ eimpl = "node/NodeProcessor"
    /\ Len(enc_nodes) = 2
    /\ enc_nodes[1] # enc_nodes[2]
    /\ \E i \in 1..Len(enc_nodes[1]) : enc_nodes[1][i] >= 128
    /\ decoded = enc_nodes

(***************************************************************************)
(* Worker pools.  ThreadPoolExecutor(max_workers) starts a thread on a     *)
(* submit when no thread is idle and fewer than max_workers exist; the     *)
(* with block leaves only when every submitted task has ended.  Tasks are  *)
(* counted, not named.                                                     *)
(***************************************************************************)
MaxWorkers == 2

MaxTasks == 4

BatchCap == 50

PoolImpls == {"NodeMerger.fetch", "NodeSelector.probe", "w-sub.probe"}

\* A pool that starts a thread for every task.
ThreadPerTask(impl, w) == MaxTasks + 1

\* max_workers of the pool each caller creates.
PoolSize(impl, w) == IF impl = "NodeSelector.probe" THEN w * 2 ELSE w

\* A batch that is only capped at 50, whatever WORKERS is.
CapOnly(impl, w) == BatchCap

\* batch_size = min(50, WORKERS * 3); the two other callers submit everything.
BatchSize(impl, w) == IF impl = "w-sub.probe" THEN Min(BatchCap, w * 3) ELSE MaxTasks

PoolInit ==
    /\ pimpl \in PoolImpls
    /\ ppc = "start"
    /\ workers \in 0..MaxWorkers
    /\ ntasks \in (IF pimpl = "NodeMerger.fetch" THEN 1..MaxTasks ELSE 0..MaxTasks)
    /\ offset = 0
    /\ batch_n = 0
    /\ submitted = 0
    /\ threads = 0
    /\ queued = 0
    /\ running = 0

\* The caller reaches its (first) pool.  ThreadPoolExecutor raises ValueError
\* for max_workers <= 0, range() for a step of 0; only NodeMerger catches.
PoolBegin ==
    /\ ppc = "start"
    /\ IF pimpl = "w-sub.probe" /\ ntasks = 0
       THEN ppc' = "done" /\ batch_n' = 0
       ELSE IF PoolSize(pimpl, workers) <= 0
            THEN /\ ppc' = IF pimpl = "NodeMerger.fetch" THEN "serial" ELSE "raised"
                 /\ batch_n' = 0
            ELSE /\ ppc' = "submitting"
                 /\ batch_n' = Min(ntasks, BatchSize(pimpl, workers))
    /\ UNCHANGED <<pimpl, workers, ntasks, offset, submitted, threads, queued, running>>
    /\ UNCHANGED notPool

\* executor.submit / executor.map hands over the next task.
Submit ==
    /\ ppc = "submitting"
    /\ submitted < batch_n
    /\ submitted' = submitted + 1
    /\ queued' = queued + 1
    /\ threads' = IF threads - running = 0 /\ threads < PoolSize(pimpl, workers)
                  THEN threads + 1 ELSE threads
    /\ UNCHANGED <<pimpl, ppc, workers, ntasks, offset, batch_n, running>>
    /\ UNCHANGED notPool

\* Everything is submitted: the caller waits for the results.
AllSubmitted ==
    /\ ppc = "submitting"
    /\ submitted = batch_n
    /\ ppc' = "collecting"
    /\ UNCHANGED <<pimpl, workers, ntasks, offset, batch_n, submitted, threads, queued, running>>
    /\ UNCHANGED notPool

\* submit raises (no thread can be started): the with block waits for the
\* tasks already submitted before the exception goes on.
SubmitFault ==
    /\ ppc = "submitting"
    /\ submitted < batch_n
    /\ ppc' = "draining"
    /\ UNCHANGED <<pimpl, workers, ntasks, offset, batch_n, submitted, threads, queued, running>>
    /\ UNCHANGED notPool

\* An idle worker thread takes a task from the queue.
WorkerTakes ==
    /\ ppc \in {"submitting", "collecting", "draining"}
    /\ queued > 0
    /\ running < threads
    /\ queued' = queued - 1
    /\ running' = running + 1
    /\ UNCHANGED <<pimpl, ppc, workers, ntasks, offset, batch_n, submitted, threads>>
    /\ UNCHANGED notPool

\* A running fetch or probe ends.
TaskEnds ==
    /\ ppc \in {"submitting", "collecting", "draining"}
    /\ running > 0
    /\ running' = running - 1
    /\ UNCHANGED <<pimpl, ppc, workers, ntasks, offset, batch_n, submitted, threads, queued>>
    /\ UNCHANGED notPool

\* The with block is left; w-sub goes on with the next batch.
PoolExit ==
    /\ ppc = "collecting"
    /\ queued = 0
    /\ running = 0
    /\ threads' = 0
    /\ submitted' = 0
    /\ offset' = offset + batch_n
    /\ IF pimpl = "w-sub.probe" /\ offset + batch_n < ntasks
       THEN /\ ppc' = "submitting"
            /\ batch_n' = Min(ntasks - (offset + batch_n), BatchSize(pimpl, workers))
       ELSE /\ ppc' = "done"
            /\ batch_n' = 0
    /\ UNCHANGED <<pimpl, workers, ntasks, queued, running>>
    /\ UNCHANGED notPool

\* The submitted tasks have ended and the exception leaves the with block:
\* NodeMerger starts over serially, the probing callers propagate it.
Drained ==
    /\ ppc = "draining"
    /\ queued = 0
    /\ running = 0
    /\ ppc' = IF pimpl = "NodeMerger.fetch" THEN "serial" ELSE "raised"
    /\ threads' = 0
    /\ submitted' = 0
    /\ batch_n' = 0
    /\ UNCHANGED <<pimpl, workers, ntasks, offset, queued, running>>
    /\ UNCHANGED notPool

\* NodeMerger's fallback loop calls fetch_nodes for the next source.
SerialCall ==
    /\ ppc = "serial"
    /\ running = 0
    /\ offset < ntasks
    /\ running' = 1
    /\ UNCHANGED <<pimpl, ppc, workers, ntasks, offset, batch_n, submitted, threads, queued>>
    /\ UNCHANGED notPool

\* That call returns; after the last source the loop ends.
SerialReturn ==
    /\ ppc = "serial"
    /\ running = 1
    /\ running' = 0
    /\ offset' = offset + 1
    /\ ppc' = IF offset + 1 = ntasks THEN "done" ELSE "serial"
    /\ UNCHANGED <<pimpl, workers, ntasks, batch_n, submitted, threads, queued>>
    /\ UNCHANGED notPool

(***************************************************************************)
(* Properties of the worker pools                                          *)
(***************************************************************************)

\* C16 as claimed: at every moment at most WORKERS fetch tasks run, and at
\* most WORKERS*2 (NodeSelector) or WORKERS (w-sub) probe tasks.
C16_AtMostWorkersRunning ==
    running <= PoolSize(pimpl, workers)

\* C16: at every moment the number of probe tasks running is at most
\* WORKERS*2 (NodeSelector) or WORKERS (w-sub), and the number of fetch
\* tasks running is at most WORKERS while the pool is in use and one in the
\* serial fallback, however many sources or candidates there are.
C16_BoundedConcurrency ==
    /\ pimpl = "NodeSelector.probe" => running <= 2 * workers
    /\ pimpl = "w-sub.probe" => running <= workers
    /\ pimpl = "NodeMerger.fetch" => running <= (IF ppc = "serial" THEN 1 ELSE workers)

\* The pool is full and tasks are waiting.
C16_Witness ==
    /\ pimpl = "NodeSelector.probe"
    /\ workers = 1
    /\ running = 2
    /\ queued > 0

(***************************************************************************)
(* Quality filter of node/NodeProcessor.  A descriptor string is the       *)
(* sequence of its code points; what base64.b64decode and json.loads make  *)
(* of its payload is kept as a field:                                      *)
(*   "json"        the payload is Base64 of a JSON document                *)
(*   "not_json"    the payload is Base64 of something else                 *)
(*   "not_base64"  b64decode raises                                        *)
(***************************************************************************)
MaxEntryLen == 2

MinContentLen == 10

SchemeSeparator == <<58, 47, 47>>

\* "ss", "SS", "vmess", "VMESS", "trojan"
Schemes ==
    { <<115, 115>>, <<83, 83>>,
      <<118, 109, 101, 115, 115>>, <<86, 77, 69, 83, 83>>,
      <<116, 114, 111, 106, 97, 110>> }

\* 'a', 'A': a letter in both cases, as host names and IPv6 addresses have.
HostChars == {97, 65}

\* Ten '0' after the characters under study: every line that passed
\* _is_valid_node_format has more than ten characters after '://'.
Filler == [i \in 1..MinContentLen |-> 48]

FilterLines ==
    { [scheme |-> s, content |-> c \o Filler, payload |-> p] :
        s \in Schemes,
        c \in SeqsUpTo(HostChars, MaxEntryLen) \ {<<>>},
        p \in {"json", "not_json", "not_base64"} }

BlacklistEntries == SeqsUpTo(HostChars, MaxEntryLen) \ {<<>>}

\* The string of a descriptor.
NodeString(n) == n.scheme \o SchemeSeparator \o n.content

\* str.lower() on one character and on a string.
lower_char(c) == IF c >= 65 /\ c <= 90 THEN c + 32 ELSE c

lower(str) == [i \in 1..Len(str) |-> lower_char(str[i])]

\* sub in str
Contains(str, sub) == find(str, sub) # 0

\* _is_in_blacklist: the domains are lowered, the IPs are taken as configured.
_is_in_blacklist(n, domains, ips) ==
    LET node_lower == lower(NodeString(n))
    IN  \/ \E i \in 1..Len(domains) : Contains(node_lower, lower(domains[i]))
        \/ \E i \in 1..Len(ips) : Contains(node_lower, ips[i])

\* An allow-list check that lets every protocol through.
AnyProtocol(n, preferred) == TRUE

\* "if self.preferred_protocols:" and the test under it, as the condition to
\* go on: protocol = node.split('://')[0].lower() is in the lowered list.
ProtocolAllowed(n, preferred) ==
    preferred # <<>> => \E i \in 1..Len(preferred) : lower(n.scheme) = lower(preferred[i])

\* _check_node_basic_validity: protocol_part is compared as written.
_check_node_basic_validity(n) ==
    IF Len(n.content) < MinContentLen THEN FALSE
    ELSE IF n.scheme \in { <<118, 109, 101, 115, 115>>, <<116, 114, 111, 106, 97, 110>> }
         THEN IF n.payload = "not_base64" THEN FALSE
              ELSE IF n.scheme = <<118, 109, 101, 115, 115>>
                   THEN n.payload = "json"
                   ELSE TRUE
         ELSE TRUE

FilterInit ==
    /\ line \in FilterLines
    /\ blacklist_domains \in SeqsUpTo(BlacklistEntries, 1)
    /\ blacklist_ips \in SeqsUpTo(BlacklistEntries, 1)
    /\ preferred_protocols \in {<<>>, << <<118, 109, 101, 115, 115>> >>, << <<83, 83>> >>}
    /\ check_connectivity \in BOOLEAN
    /\ kpc = "called"
    /\ keep = FALSE
    /\ evaluated = <<>>

\* _should_keep_node(line): evaluated lists the checks it ran.  The schemes
\* of the model are none of http, https, socks: _check_node_connectivity
\* returns True for them.
_should_keep_node ==
    /\ kpc = "called"
    /\ kpc' = "returned"
    /\ IF _is_in_blacklist(line, blacklist_domains, blacklist_ips)
       THEN keep' = FALSE /\ evaluated' = <<"blacklist">>
       ELSE IF ~ProtocolAllowed(line, preferred_protocols)
            THEN keep' = FALSE /\ evaluated' = <<"blacklist", "protocol">>
            ELSE IF ~_check_node_basic_validity(line)
                 THEN keep' = FALSE /\ evaluated' = <<"blacklist", "protocol", "validity">>
                 ELSE IF check_connectivity
                      THEN /\ keep' = TRUE
                           /\ evaluated' = <<"blacklist", "protocol", "validity", "connectivity">>
                      ELSE /\ keep' = TRUE
                           /\ evaluated' = <<"blacklist", "protocol", "validity">>
    /\ UNCHANGED <<line, blacklist_domains, blacklist_ips, preferred_protocols, check_connectivity>>
    /\ UNCHANGED notFilter

(***************************************************************************)
(* Properties of the quality filter                                        *)
(***************************************************************************)

\* Some configured blacklist entry occurs in the descriptor when both are
\* case-folded.
BlacklistedFolded ==
    \E e \in Range(blacklist_domains) \cup Range(blacklist_ips) :
        Contains(lower(NodeString(line)), lower(e))

\* C17: a descriptor in which a blacklist domain or IP occurs as a substring
\* under case-insensitive comparison is rejected by the quality filter.
C17_BlacklistedRejected ==
    (kpc = "returned" /\ BlacklistedFolded) => ~keep

\* The allow-list is empty or holds the protocol of the descriptor.
InAllowList ==
    \/ preferred_protocols = <<>>
    \/ lower(line.scheme) \in {lower(p) : p \in Range(preferred_protocols)}

\* C18: with connectivity checking off, _should_keep_node returns true
\* exactly when the descriptor is not blacklisted, its protocol passes the
\* allow-list and the structural check passes; the checks run in that order
\* and nothing is evaluated after the first check that fails.
C18_ShortCircuitConjunction ==
    (kpc = "returned" /\ ~check_connectivity) =>
        LET b == ~_is_in_blacklist(line, blacklist_domains, blacklist_ips)
            a == InAllowList
            v == _check_node_basic_validity(line)
        IN  /\ keep <=> (b /\ a /\ v)
            /\ evaluated = IF ~b THEN <<"blacklist">>
                           ELSE IF ~a THEN <<"blacklist", "protocol">>
                           ELSE <<"blacklist", "protocol", "validity">>

\* An allowed, not blacklisted vmess descriptor whose payload is no JSON is
\* rejected by the third check.
C18_Witness ==
    /\ kpc = "returned"
    /\ ~check_connectivity
    /\ preferred_protocols # <<>>
    /\ blacklist_domains # <<>>
    /\ evaluated = <<"blacklist", "protocol", "validity">>
    /\ ~keep

(***************************************************************************)
(* _extract_nodes.  The content of a source is a string (code points);     *)
(* the regular expressions and the string methods are computed on it.      *)
(***************************************************************************)
MaxLines == 2

SPACE == 32

WhiteSpace == {9, 10, 11, 12, 13, 32}

ExtractImpls == {"NodeFetcher", "w-sub", "node/NodeProcessor"}

\* The schemes of the patterns r'(<scheme>://[^\s]+)' of NodeFetcher.
NodeFetcherPatterns ==
    <<
      <<118, 109, 101, 115, 115>>,  \* vmess
      <<118, 50, 114, 97, 121>>,  \* v2ray
      <<116, 114, 111, 106, 97, 110>>,  \* trojan
      <<115, 104, 97, 100, 111, 119, 115, 111, 99, 107, 115>>,  \* shadowsocks
      <<115, 104, 97, 100, 111, 119, 115, 111, 99, 107, 115, 114>>,  \* shadowsocksr
      <<118, 108, 101, 115, 115>>,  \* vless
      <<115, 115>>,  \* ss
      <<115, 115, 114>>,  \* ssr
      <<116, 114, 111, 106, 97, 110, 45, 103, 111>>,  \* trojan-go
      <<99, 108, 97, 115, 104>>,  \* clash
      <<115, 105, 110, 103, 45, 98, 111, 120>>,  \* sing-box
      <<104, 121, 115, 116, 101, 114, 105, 97>>  \* hysteria
    >>

\* The schemes of the patterns of w-sub.
WSubPatterns ==
    <<
      <<118, 109, 101, 115, 115>>,  \* vmess
      <<118, 50, 114, 97, 121>>,  \* v2ray
      <<116, 114, 111, 106, 97, 110>>,  \* trojan
      <<115, 104, 97, 100, 111, 119, 115, 111, 99, 107, 115>>,  \* shadowsocks
      <<115, 104, 97, 100, 111, 119, 115, 111, 99, 107, 115, 114>>  \* shadowsocksr
    >>

\* supported_protocols of node/NodeProcessor._is_valid_node_format
supported_protocols ==
    <<
      <<118, 109, 101, 115, 115>>,  \* vmess
      <<118, 50, 114, 97, 121>>,  \* v2ray
      <<116, 114, 111, 106, 97, 110>>,  \* trojan
      <<116, 114, 111, 106, 97, 110, 45, 103, 111>>,  \* trojan-go
      <<115, 104, 97, 100, 111, 119, 115, 111, 99, 107, 115>>,  \* shadowsocks
      <<115, 104, 97, 100, 111, 119, 115, 111, 99, 107, 115, 114>>,  \* shadowsocksr
      <<118, 108, 101, 115, 115>>,  \* vless
      <<115, 115>>,  \* ss
      <<115, 115, 114>>,  \* ssr
      <<104, 121, 115, 116, 101, 114, 105, 97>>,  \* hysteria
      <<104, 121, 115, 116, 101, 114, 105, 97, 50>>,  \* hysteria2
      <<116, 117, 105, 99>>,  \* tuic
      <<119, 105, 114, 101, 103, 117, 97, 114, 100>>,  \* wireguard
      <<110, 97, 105, 118, 101, 112, 114, 111, 120, 121>>,  \* naiveproxy
      <<115, 111, 99, 107, 115>>,  \* socks
      <<104, 116, 116, 112>>,  \* http
      <<104, 116, 116, 112, 115>>,  \* https
      <<99, 108, 97, 115, 104>>  \* clash
    >>

\* Tokens a source can hold: "vmess://a0000000000", "ss://a0000000000", "#c".
TokenPool ==
    { <<118, 109, 101, 115, 115>> \o SchemeSeparator \o <<97>> \o Filler,
      <<115, 115>> \o SchemeSeparator \o <<97>> \o Filler,
      <<35, 99>> }

\* A line holds one token or two tokens with a space between them.
TokenLines ==
    TokenPool \cup {t \o <<SPACE>> \o u : t, u \in TokenPool}

\* The contents of a source: lines joined by '\n'.
Contents == {join(<<LF>>, ls) : ls \in SeqsUpTo(TokenLines, MaxLines)}

\* str.startswith(prefix)
startswith(str, prefix) ==
    Len(str) >= Len(prefix) /\ SubSeq(str, 1, Len(prefix)) = prefix

\* The end of the run of non-white-space characters that starts at i.
RECURSIVE TokenEnd(_, _)
TokenEnd(str, i) ==
    IF i < Len(str) /\ str[i + 1] \notin WhiteSpace THEN TokenEnd(str, i + 1) ELSE i

\* re.findall(r'(<scheme>://[^\s]+)', str): scan from position i on; a match
\* runs to the next white space and the scan goes on behind it.
RECURSIVE findall(_, _, _)
findall(scheme, str, i) ==
    LET prefix == scheme \o SchemeSeparator
        from   == i + Len(prefix)
    IN  IF from > Len(str) THEN <<>>
        ELSE IF SubSeq(str, i, from - 1) = prefix /\ str[from] \notin WhiteSpace
             THEN <<SubSeq(str, i, TokenEnd(str, from))>>
                      \o findall(scheme, str, TokenEnd(str, from) + 1)
             ELSE findall(scheme, str, i + 1)

\* nodes.extend(matches) for every pattern in turn.
AllMatches(patterns, str) ==
    Flatten([k \in 1..Len(patterns) |-> findall(patterns[k], str, 1)])

\* str.strip()
RECURSIVE strip(_)
strip(str) ==
    IF str = <<>> THEN str
    ELSE IF Head(str) \in WhiteSpace THEN strip(Tail(str))
    ELSE IF str[Len(str)] \in WhiteSpace THEN strip(SubSeq(str, 1, Len(str) - 1))
    ELSE str

\* _is_valid_node_format(line)
_is_valid_node_format(str) ==
    \E k \in 1..Len(supported_protocols) :
        LET protocol == supported_protocols[k]
        IN  /\ startswith(lower(str), protocol \o SchemeSeparator)
            /\ Len(str) > Len(protocol) + 3
            /\ Len(split(str, SchemeSeparator)[2]) > MinContentLen

\* node.split('://', 1), as the descriptor the quality filter looks at; what
\* the Base64 decoding of the payload gives is an input.
ParsedLine(str, how) ==
    LET i == find(str, SchemeSeparator)
    IN  [scheme |-> SubSeq(str, 1, i - 1),
         content |-> SubSeq(str, i + Len(SchemeSeparator), Len(str)),
         payload |-> how]

\* The loop of node/NodeProcessor._extract_nodes over content.split('\n'),
\* with the default configuration (no blacklist, no allow-list, no
\* connectivity check).
RECURSIVE KeptLines(_, _)
KeptLines(lines, how) ==
    IF lines = <<>> THEN <<>>
    ELSE LET this == strip(Head(lines))
             kept == /\ this # <<>>
                     /\ _is_valid_node_format(this)
                     /\ _check_node_basic_validity(ParsedLine(this, how))
         IN  (IF kept THEN <<this>> ELSE <<>>) \o KeptLines(Tail(lines), how)

ExtractInit ==
    /\ ximpl \in ExtractImpls
    /\ xcontent \in Contents
    /\ decodes \in {"json", "not_base64"}
    /\ xpc = "called"
    /\ extracted = <<>>

\* _extract_nodes(content)
_extract_nodes ==
    /\ xpc = "called"
    /\ xpc' = "returned"
    /\ IF ximpl = "node/NodeProcessor"
       THEN extracted' = KeptLines(split(xcontent, <<LF>>), decodes)
       ELSE extracted' \in ListOfSet(AllMatches(IF ximpl = "NodeFetcher"
                                                 THEN NodeFetcherPatterns
                                                 ELSE WSubPatterns, xcontent))
    /\ UNCHANGED <<ximpl, xcontent, decodes>>
    /\ UNCHANGED notExtract

(***************************************************************************)
(* Properties of _extract_nodes                                            *)
(***************************************************************************)

\* The white-space-delimited tokens of a string.
RECURSIVE TokensOf(_, _)
TokensOf(str, i) ==
    IF i > Len(str) THEN {}
    ELSE IF str[i] \in WhiteSpace THEN TokensOf(str, i + 1)
    ELSE {SubSeq(str, i, TokenEnd(str, i))} \cup TokensOf(str, TokenEnd(str, i) + 1)

\* The schemes the extractor of an implementation supports.
SupportedSchemes(impl) ==
    IF impl = "NodeFetcher" THEN Range(NodeFetcherPatterns)
    ELSE IF impl = "w-sub" THEN Range(WSubPatterns)
    ELSE Range(supported_protocols)

\* C19: every descriptor the extractor returns is a complete
\* white-space-delimited token of the input that begins with a supported
\* '<scheme>://'; none is a proper substring of a token.
C19_WholeTokensOnly ==
    xpc = "returned" =>
        \A k \in 1..Len(extracted) :
            /\ extracted[k] \in TokensOf(xcontent, 1)
            /\ \E s \in SupportedSchemes(ximpl) :
                  startswith(lower(extracted[k]), s \o SchemeSeparator)

\* C20: the list the extractor returns for one source holds no two equal
\* descriptor strings, even when the content repeats a descriptor.
C20_NoRepeatsPerSource ==
    xpc = "returned" => NoDuplicates(extracted)

\* C21: within the list extracted from one source the descriptors appear
\* in the order of their first occurrence in the source text.  Stated for
\* the runs in which every descriptor is a whole token of the source, so
\* that a match inside a token (C19) is not what refutes it.
C21_FirstOccurrenceOrder ==
    (xpc = "returned" /\ Range(extracted) \subseteq TokensOf(xcontent, 1)) =>
        \A i, j \in 1..Len(extracted) :
            i < j => find(xcontent, extracted[i]) <= find(xcontent, extracted[j])

(***************************************************************************)
(* _try_decode_base64.  What base64.b64decode(...).decode('utf-8') makes   *)
(* of the blob in each attempt is an input:                                *)
(*   "raises"    the decoding raises                                       *)
(*   "no_token"  it gives a text without any '<scheme>://' of the list     *)
(*   "token"     it gives a text that holds one                            *)
(* The attempt "lines" is the line-by-line decoding; "single" says the     *)
(* blob has one line and the attempt is not made.                          *)
(***************************************************************************)
DecodeImpls == {"NodeFetcher", "node/NodeProcessor"}

\* NodeFetcher: direct with validate=True, the paddings '', '=', '==', the
\* offsets 0..3, then the lines.
NodeFetcherAttempts ==
    <<"direct", "pad0", "pad1", "pad2", "skip0", "skip1", "skip2", "skip3", "lines">>

\* node/NodeProcessor: direct, then with the missing padding added.
NodeProcessorAttempts == <<"direct", "padded">>

AttemptsOf(impl) ==
    IF impl = "NodeFetcher" THEN NodeFetcherAttempts ELSE NodeProcessorAttempts

AttemptOutcomes(a) ==
    IF a = "lines" THEN {"single", "no_token", "token"}
    ELSE {"raises", "no_token", "token"}

Original == [kind |-> "original", by |-> "none", token |-> FALSE]

NoneReturned == [kind |-> "None", by |-> "none", token |-> FALSE]

DecodedBy(a, has_token) == [kind |-> "decoded", by |-> a, token |-> has_token]

\* The attempts of NodeFetcher from the k-th on: the first text with a
\* scheme token is returned, the original content when there is none.
RECURSIVE FirstAccepted(_, _)
FirstAccepted(outcome, k) ==
    IF k > Len(NodeFetcherAttempts) THEN Original
    ELSE IF outcome[NodeFetcherAttempts[k]] = "token"
         THEN DecodedBy(NodeFetcherAttempts[k], TRUE)
         ELSE FirstAccepted(outcome, k + 1)

\* node/NodeProcessor: whatever decodes is returned, None when nothing does.
FirstDecoded(outcome) ==
    IF outcome["direct"] # "raises"
    THEN DecodedBy("direct", outcome["direct"] = "token")
    ELSE IF outcome["padded"] # "raises"
         THEN DecodedBy("padded", outcome["padded"] = "token")
         ELSE NoneReturned

DecodeInit ==
    /\ dimpl \in DecodeImpls
    /\ attempts \in {f \in [Range(AttemptsOf(dimpl)) -> {"raises", "single", "no_token", "token"}] :
                        \A a \in DOMAIN f : f[a] \in AttemptOutcomes(a)}
    /\ dpc = "called"
    /\ dresult = Original

\* _try_decode_base64(content)
_try_decode_base64 ==
    /\ dpc = "called"
    /\ dpc' = "returned"
    /\ dresult' = IF dimpl = "NodeFetcher" THEN FirstAccepted(attempts, 1)
                  ELSE FirstDecoded(attempts)
    /\ UNCHANGED <<dimpl, attempts>>
    /\ UNCHANGED notDecode

(***************************************************************************)
(* Properties of _try_decode_base64                                        *)
(***************************************************************************)

\* The attempts that gave a text with a scheme token, as positions in the
\* order of the attempts.
AcceptedAt == {k \in 1..Len(AttemptsOf(dimpl)) : attempts[AttemptsOf(dimpl)[k]] = "token"}

\* C22: the payload decoder returns a decoded candidate only if it holds a
\* recognized scheme token, and then the first such candidate in the order
\* of the strategies; when no candidate is accepted it returns the original
\* blob, never a decode without a scheme token.
C22_OnlyAcceptedCandidates ==
    dpc = "returned" =>
        IF AcceptedAt = {}
        THEN dresult = Original
        ELSE /\ dresult.kind = "decoded"
             /\ dresult.token
             /\ \E k \in AcceptedAt :
                   /\ dresult.by = AttemptsOf(dimpl)[k]
                   /\ \A j \in AcceptedAt : k <= j

(***************************************************************************)
(* One probe: test_node_speed (NodeSelector) and _test_node_latency        *)
(* (w-sub).  A candidate is what the parser makes of its descriptor:       *)
(*   NodeSelector  _extract_server_info returns None ("none") or a pair    *)
(*                 (host, port), the host None when the vmess JSON has no  *)
(*                 'add', the port 0 when it has no 'port';                *)
(*   w-sub         _parse_node_info returns the address as "host:port"     *)
(*                 ("pair", 'Unknown' for what is missing) or as a bare    *)
(*                 host ("bare").                                          *)
(***************************************************************************)
MaxBatch == 2

\* Ports are written as their decimal text.
DefaultPort == "443"

ProbeImpls == {"NodeSelector", "w-sub"}

ServerInfos(impl) ==
    IF impl = "NodeSelector"
    THEN {[form |-> "none", host |-> "None", port |-> "0"]}
            \cup {[form |-> "pair", host |-> h, port |-> p] :
                     h \in {"None", "h1.example"}, p \in {"0", DefaultPort}}
    ELSE {[form |-> "bare", host |-> h, port |-> "Unknown"] :
              h \in {"Unknown", "", "h1.example", "1.2.3.4"}}
            \cup {[form |-> "pair", host |-> h, port |-> p] :
                     h \in {"Unknown", "h1.example"}, p \in {"Unknown", "0", DefaultPort}}

\* test_node_speed: "if not server_info or len(server_info) != 2: return None"
NodeSelectorSkips(info) == info.form = "none"

\* _test_node_latency: address == "Unknown" or address == "" or
\* (':' not in address and not re.match(<ip pattern>, address))
WSubSkips(info) ==
    \/ info.form = "bare" /\ info.host = "Unknown"
    \/ info.form = "bare" /\ info.host = ""
    \/ info.form = "bare" /\ info.host # "1.2.3.4"

Skips(impl, info) ==
    IF impl = "NodeSelector" THEN NodeSelectorSkips(info) ELSE WSubSkips(info)

\* The (host, port) handed to connect.  w-sub: "host, port = address.rsplit(
\* ':', 1); port = int(port)", and on failure the whole address with 443.
ConnectTarget(impl, info) ==
    IF impl = "NodeSelector" THEN <<info.host, info.port>>
    ELSE IF info.form = "bare" THEN <<info.host, DefaultPort>>
    ELSE IF info.port = "Unknown" THEN <<info.host \o ":Unknown", DefaultPort>>
    ELSE <<info.host, info.port>>

\* A connection can only succeed to a real host and port.
CanConnect(target) == target[1] = "h1.example" /\ target[2] = DefaultPort

ProbeInit ==
    /\ timpl \in ProbeImpls
    /\ infos \in SeqsUpTo(ServerInfos(timpl), MaxBatch) \ {<<>>}
    /\ tpc = "probing"
    /\ connected = {}
    /\ probed = [i \in 1..Len(infos) |-> "pending"]

\* The probe of candidate i runs: test_node_speed / _test_node_latency.
ProbeOne(i) ==
    /\ tpc = "probing"
    /\ i \in 1..Len(infos)
    /\ probed[i] = "pending"
    /\ IF Skips(timpl, infos[i])
       THEN /\ probed' = [probed EXCEPT ![i] = "unreachable"]
            /\ UNCHANGED connected
       ELSE /\ connected' = connected \cup {i}
            /\ \E ok \in {b \in BOOLEAN : b => CanConnect(ConnectTarget(timpl, infos[i]))} :
                  probed' = [probed EXCEPT ![i] = IF ok THEN "latency" ELSE "unreachable"]
    /\ UNCHANGED <<timpl, infos, tpc>>
    /\ UNCHANGED notProbe

\* Every probe of the batch has returned.
ProbesCollected ==
    /\ tpc = "probing"
    /\ \A i \in 1..Len(infos) : probed[i] # "pending"
    /\ tpc' = "done"
    /\ UNCHANGED <<timpl, infos, connected, probed>>
    /\ UNCHANGED notProbe

(***************************************************************************)
(* Properties of the probes                                                *)
(***************************************************************************)

\* The host or the port of a candidate cannot be resolved.
Unresolvable(info) ==
    \/ info.form = "none"
    \/ info.host \in {"None", "Unknown", ""}
    \/ info.port \in {"0", "Unknown"} /\ info.form = "pair"

\* C23: for a candidate whose host or port cannot be resolved (a host that
\* is None or missing, a port of 0) the prober makes no connection attempt
\* and records it unreachable; the other candidates are still probed.
C23_UnresolvableNotConnected ==
    \A i \in 1..Len(infos) :
        (probed[i] # "pending" /\ Unresolvable(infos[i])) =>
            /\ i \notin connected
            /\ probed[i] = "unreachable"

(***************************************************************************)
(* The pipeline: main of w-sub.py.  calls is the sequence of stages main   *)
(* has started, files the set of outputs written so far.                   *)
(***************************************************************************)

\* main without the test: it goes on with whatever merge_nodes left.
GoesOn(ns) == FALSE

\* "if not processor.nodes"
NoNodes(ns) == ns = <<>>

MainInit ==
    /\ main_pc = "start"
    /\ processor_nodes = <<>>
    /\ measured = {}
    /\ calls = <<>>
    /\ files = {}

\* processor.merge_nodes() returns: processor.nodes is the merged list.
MainMerge ==
    /\ main_pc = "start"
    /\ \E ns \in CandidateLists : processor_nodes' = ns
    /\ calls' = Append(calls, "merge_nodes")
    /\ main_pc' = "merged"
    /\ UNCHANGED <<measured, files>>
    /\ UNCHANGED notMain

\* processor.merge_nodes() raises (the pool refuses WORKERS = 0): main has
\* no handler and the run ends there.
MainMergeRaises ==
    /\ main_pc = "start"
    /\ calls' = Append(calls, "merge_nodes")
    /\ main_pc' = "crashed"
    /\ UNCHANGED <<processor_nodes, measured, files>>
    /\ UNCHANGED notMain

\* "if not processor.nodes: logger.error(...); return"
MainNoNodes ==
    /\ main_pc = "merged"
    /\ NoNodes(processor_nodes)
    /\ calls' = Append(calls, "logger.error")
    /\ main_pc' = "returned"
    /\ UNCHANGED <<processor_nodes, measured, files>>
    /\ UNCHANGED notMain

\* processor.generate_subscription(processor.nodes, OUTPUT_ALL_FILE); open()
\* may raise, and main has no handler.
MainGenerateAll ==
    /\ main_pc = "merged"
    /\ ~NoNodes(processor_nodes)
    /\ calls' = Append(calls, "generate_subscription")
    /\ \E written \in BOOLEAN :
          IF written
          THEN files' = files \cup {"OUTPUT_ALL_FILE"} /\ main_pc' = "generated"
          ELSE files' = files /\ main_pc' = "crashed"
    /\ UNCHANGED <<processor_nodes, measured>>
    /\ UNCHANGED notMain

\* processor.test_all_nodes_latency(): measured is the set of positions of
\* the nodes that got a finite latency (the keys of node_latencies).
MainProbe ==
    /\ main_pc = "generated"
    /\ calls' = Append(calls, "test_all_nodes_latency")
    /\ \E m \in SUBSET (1..Len(processor_nodes)) : measured' = m
    /\ main_pc' = "probed"
    /\ UNCHANGED <<processor_nodes, files>>
    /\ UNCHANGED notMain

\* "if processor.node_latencies:" best-nodes subscription and README.
MainBest ==
    /\ main_pc = "probed"
    /\ measured # {}
    /\ calls' = calls \o <<"filter_fastest_nodes", "generate_subscription", "update_readme">>
    /\ files' = files \cup {"OUTPUT_BEST_FILE", "README.md"}
    /\ main_pc' = "returned"
    /\ UNCHANGED <<processor_nodes, measured>>
    /\ UNCHANGED notMain

\* "else: ... processor.update_readme([])"
MainNoLatencies ==
    /\ main_pc = "probed"
    /\ measured = {}
    /\ calls' = Append(calls, "update_readme")
    /\ files' = files \cup {"README.md"}
    /\ main_pc' = "returned"
    /\ UNCHANGED <<processor_nodes, measured>>
    /\ UNCHANGED notMain

(***************************************************************************)
(* Properties of the pipeline                                              *)
(***************************************************************************)

\* The positions in calls at which stage c was started.
CallsOf(c) == {i \in 1..Len(calls) : calls[i] = c}

\* C24: when aggregation yields no node the pipeline reports the failure
\* and stops, with no subscription, no probing and no README update; when
\* it yields a node, the all-nodes subscription is generated before any
\* probing starts.
C24_EmptyAggregationStops ==
    /\ (main_pc = "returned" /\ processor_nodes = <<>>) =>
          /\ calls = <<"merge_nodes", "logger.error">>
          /\ files = {}
    /\ (main_pc # "start" /\ processor_nodes = <<>>) =>
          /\ CallsOf("generate_subscription") = {}
          /\ CallsOf("test_all_nodes_latency") = {}
          /\ CallsOf("update_readme") = {}
          /\ files = {}
    /\ \A i \in CallsOf("test_all_nodes_latency") :
          /\ processor_nodes # <<>>
          /\ "OUTPUT_ALL_FILE" \in files
          /\ \E j \in CallsOf("generate_subscription") : j < i

\* main has returned after an aggregation without nodes; and, in another
\* run, probing has started after an aggregation with nodes.
C24_Witness ==
    \/ main_pc = "returned" /\ processor_nodes = <<>> /\ Len(calls) = 2
    \/ main_pc = "probed" /\ Len(processor_nodes) > 1

(***************************************************************************)
(* The tasks of a pool, one by one: test_all_nodes_latency of w-sub.py     *)
(* with its batches, and the single pools of NodeSelector and NodeMerger.  *)
(* A task of w-sub (_test_node_latency) appends to self.debug_info and     *)
(* increments self.valid_nodes_count or self.failed_nodes_count with       *)
(* "+= 1", a read followed by a write; the tasks of the two other callers  *)
(* only return a value.                                                    *)
(***************************************************************************)
\* As many nodes as the pools above take tasks.
MaxNodes == MaxTasks

\* Every caller here has WORKERS >= 1 (the pool refuses 0, see PoolBegin).
WorkerCounts == 1..MaxWorkers

Collector == "collector"

Worker == "worker"

RunningStates == {"running", "incrementing"}

Running == {t \in 1..nnodes : tstate[t] \in RunningStates}

\* The slice self.nodes[i:i+batch_size], as first and last position.
Slice(lo, size, n) == [lo |-> lo, hi |-> Min(lo + size - 1, n)]

CurrentBatch == batches[Len(batches)]

InBatch(b) == b.lo .. b.hi

\* The tasks of slice b are handed to the pool.
Queue(ts, b) == [t \in 1..nnodes |-> IF t \in InBatch(b) THEN "queued" ELSE ts[t]]

\* What the collecting thread accumulates into.
CollectedInto(impl) ==
    IF impl = "w-sub.probe" THEN "node_latencies"
    ELSE IF impl = "NodeSelector.probe" THEN "nodes_with_speed"
    ELSE "all_nodes"

LatencyInit ==
    /\ limpl \in PoolImpls
    /\ lpc = "start"
    /\ lworkers \in WorkerCounts
    /\ nnodes \in 0..MaxNodes
    /\ tstate = [t \in 1..nnodes |-> "unsubmitted"]
    /\ result = [t \in 1..nnodes |-> "none"]
    /\ tmp = [t \in 1..nnodes |-> 0]
    /\ valid_nodes_count = 0
    /\ failed_nodes_count = 0
    /\ latency_keys = {}
    /\ shared_writes = {}
    /\ probe_count = [t \in 1..nnodes |-> 0]
    /\ batches = <<>>

\* The first pool is created and map/submit hands over the first slice; a
\* w-sub run over an empty list never enters the loop.
FirstBatch ==
    /\ lpc = "start"
    /\ IF nnodes = 0
       THEN /\ lpc' = "returned"
            /\ UNCHANGED <<tstate, batches>>
       ELSE LET b == Slice(1, BatchSize(limpl, lworkers), nnodes)
            IN  /\ lpc' = "pool"
                /\ batches' = Append(batches, b)
                /\ tstate' = Queue(tstate, b)
    /\ UNCHANGED <<limpl, lworkers, nnodes, result, tmp, valid_nodes_count,
                   failed_nodes_count, latency_keys, shared_writes, probe_count>>
    /\ UNCHANGED notLatency

\* An idle worker thread takes the oldest queued task.
TaskStarts(t) ==
    /\ lpc = "pool"
    /\ t \in 1..nnodes
    /\ tstate[t] = "queued"
    /\ \A u \in 1..(t - 1) : tstate[u] # "queued"
    /\ Cardinality(Running) < PoolSize(limpl, lworkers)
    /\ tstate' = [tstate EXCEPT ![t] = "running"]
    /\ probe_count' = [probe_count EXCEPT ![t] = @ + 1]
    /\ UNCHANGED <<limpl, lpc, lworkers, nnodes, result, tmp, valid_nodes_count,
                   failed_nodes_count, latency_keys, shared_writes, batches>>
    /\ UNCHANGED notLatency

\* _test_node_latency up to the read of "+= 1": the probe is made, the
\* lines are appended to self.debug_info and the counter is read.
TaskProbes(t) ==
    /\ lpc = "pool"
    /\ limpl = "w-sub.probe"
    /\ t \in 1..nnodes
    /\ tstate[t] = "running"
    /\ \E r \in {"valid", "failed"} :
          /\ result' = [result EXCEPT ![t] = r]
          /\ tmp' = [tmp EXCEPT ![t] = IF r = "valid" THEN valid_nodes_count
                                                      ELSE failed_nodes_count]
    /\ shared_writes' = shared_writes \cup {<<Worker, "debug_info">>}
    /\ tstate' = [tstate EXCEPT ![t] = "incrementing"]
    /\ UNCHANGED <<limpl, lpc, lworkers, nnodes, valid_nodes_count,
                   failed_nodes_count, latency_keys, probe_count, batches>>
    /\ UNCHANGED notLatency

\* The write of "+= 1", and the return of (node, latency).
TaskIncrements(t) ==
    /\ lpc = "pool"
    /\ t \in 1..nnodes
    /\ tstate[t] = "incrementing"
    /\ IF result[t] = "valid"
       THEN /\ valid_nodes_count' = tmp[t] + 1
            /\ shared_writes' = shared_writes \cup {<<Worker, "valid_nodes_count">>}
            /\ UNCHANGED failed_nodes_count
       ELSE /\ failed_nodes_count' = tmp[t] + 1
            /\ shared_writes' = shared_writes \cup {<<Worker, "failed_nodes_count">>}
            /\ UNCHANGED valid_nodes_count
    /\ tmp' = [tmp EXCEPT ![t] = 0]
    /\ tstate' = [tstate EXCEPT ![t] = "done"]
    /\ UNCHANGED <<limpl, lpc, lworkers, nnodes, result, latency_keys,
                   probe_count, batches>>
    /\ UNCHANGED notLatency

\* test_node_speed / fetch_nodes: the task returns its value, nothing else.
TaskReturns(t) ==
    /\ lpc = "pool"
    /\ limpl # "w-sub.probe"
    /\ t \in 1..nnodes
    /\ tstate[t] = "running"
    /\ \E r \in {"valid", "failed"} : result' = [result EXCEPT ![t] = r]
    /\ tstate' = [tstate EXCEPT ![t] = "done"]
    /\ UNCHANGED <<limpl, lpc, lworkers, nnodes, tmp, valid_nodes_count,
                   failed_nodes_count, latency_keys, shared_writes, probe_count,
                   batches>>
    /\ UNCHANGED notLatency

\* The with block is left when every task of the slice has ended; the
\* calling thread stores the results, and w-sub goes on with the next slice.
SliceCollected ==
    /\ lpc = "pool"
    /\ \A t \in InBatch(CurrentBatch) : tstate[t] = "done"
    /\ latency_keys' = latency_keys \cup
                          {t \in InBatch(CurrentBatch) : result[t] = "valid"}
    /\ shared_writes' = shared_writes \cup {<<Collector, CollectedInto(limpl)>>}
    /\ IF CurrentBatch.hi < nnodes
       THEN LET b == Slice(CurrentBatch.hi + 1, BatchSize(limpl, lworkers), nnodes)
            IN  /\ batches' = Append(batches, b)
                /\ tstate' = Queue(tstate, b)
                /\ lpc' = "pool"
       ELSE /\ lpc' = "returned"
            /\ UNCHANGED <<tstate, batches>>
    /\ UNCHANGED <<limpl, lworkers, nnodes, result, tmp, valid_nodes_count,
                   failed_nodes_count, probe_count>>
    /\ UNCHANGED notLatency

(***************************************************************************)
(* Properties of the tasks                                                 *)
(***************************************************************************)

\* C25: no state shared between concurrently running fetch or probe tasks
\* is written by those tasks; all accumulation into shared collections and
\* counters happens in the single collecting thread.
C25_OnlyCollectorWrites ==
    \A w \in shared_writes : w[1] = Collector

\* C26: after test_all_nodes_latency of w-sub returns, valid_nodes_count +
\* failed_nodes_count is the number of nodes probed and valid_nodes_count is
\* the number of entries of node_latencies, under every interleaving of the
\* worker threads.
C26_CountersAddUp ==
    (limpl = "w-sub.probe" /\ lpc = "returned") =>
        /\ valid_nodes_count + failed_nodes_count = nnodes
        /\ valid_nodes_count = Cardinality(latency_keys)

\* The slices are consecutive, start at the first node and are at most
\* min(50, WORKERS*3) long.
ConsecutiveSlices ==
    \A k \in 1..Len(batches) :
        /\ batches[k].lo = (IF k = 1 THEN 1 ELSE batches[k - 1].hi + 1)
        /\ batches[k].lo <= batches[k].hi
        /\ batches[k].hi <= nnodes
        /\ batches[k].hi - batches[k].lo + 1 <= Min(BatchCap, lworkers * 3)

\* Every probe of an earlier slice has completed.
EarlierSlicesDone ==
    \A k \in 1..(Len(batches) - 1) : \A t \in InBatch(batches[k]) : tstate[t] = "done"

\* On return the slices cover the list and every node was probed once.
AllProbedOnce ==
    lpc = "returned" =>
        /\ nnodes > 0 => batches # <<>> /\ CurrentBatch.hi = nnodes
        /\ \A t \in 1..nnodes : probe_count[t] = 1 /\ tstate[t] = "done"

\* C27: test_all_nodes_latency of w-sub terminates for every node list and
\* every WORKERS >= 1 and probes every node exactly once: the batches are
\* consecutive, disjoint slices of at most min(50, WORKERS*3) nodes whose
\* concatenation is the whole list, and batch k+1 starts only after every
\* probe of batch k has completed.
C27_BatchesCoverOnce ==
    /\ [](limpl = "w-sub.probe" =>
             /\ ConsecutiveSlices
             /\ EarlierSlicesDone
             /\ AllProbedOnce
             /\ \A t \in 1..nnodes : probe_count[t] <= 1)
    /\ <>(limpl = "w-sub.probe" => lpc = "returned")

\* w-sub has returned from a run of more than one slice.
C27_Witness ==
    /\ limpl = "w-sub.probe"
    /\ lpc = "returned"
    /\ Len(batches) > 1
    /\ \A t \in 1..nnodes : probe_count[t] = 1

(***************************************************************************)
(* fix_subscription_file (fix_subscription.py): the input file is read,    *)
(* decoded when it is Base64, split into stripped non-blank lines and      *)
(* written again as the Base64 of the lines joined by CR LF.               *)
(***************************************************************************)
MaxText == 5

\* "=" , the Base64 padding character.
PAD == 61

\* The characters of an input: a letter, a colon, a blank and a line feed.
FixChars == {115, 58, SPACE, LF}

FixTexts == SeqsUpTo(FixChars, MaxText)

\* The Base64 alphabet: A-Z, a-z, 0-9, + and /.
Alphabet == (65..90) \cup (97..122) \cup (48..57) \cup {43, 47}

RECURSIVE Repeat(_, _)
\* c * n
Repeat(c, n) == IF n <= 0 THEN <<>> ELSE <<c>> \o Repeat(c, n - 1)

\* binascii.a2b_base64 without strict mode: characters outside the alphabet
\* are skipped, the scan stops at the padding that completes a quad, and a
\* quad left open at the end is an error.
RECURSIVE ScanDigits(_, _, _)
ScanDigits(text, digits, pads) ==
    IF text = <<>> THEN [digits |-> digits, complete |-> Len(digits) % 4 = 0]
    ELSE IF Head(text) = PAD
         THEN IF Len(digits) % 4 >= 2
              THEN IF (Len(digits) % 4) + pads + 1 >= 4
                   THEN [digits |-> digits, complete |-> TRUE]
                   ELSE ScanDigits(Tail(text), digits, pads + 1)
              ELSE ScanDigits(Tail(text), digits, pads)
         ELSE IF Head(text) \in Alphabet
              THEN ScanDigits(Tail(text), Append(digits, Head(text)), 0)
              ELSE ScanDigits(Tail(text), digits, pads)

RECURSIVE Utf8Valid(_)
\* bytes.decode('utf-8') does not raise (sequences of one and two bytes).
Utf8Valid(bytes) ==
    IF bytes = <<>> THEN TRUE
    ELSE IF bytes[1] < 128 THEN Utf8Valid(Tail(bytes))
    ELSE /\ bytes[1] \in 194..223
         /\ Len(bytes) >= 2
         /\ bytes[2] \in 128..191
         /\ Utf8Valid(Tail(Tail(bytes)))

\* base64.b64decode(text).decode('utf-8'): None when either step raises,
\* else the one-element tuple of the decoded string.
TryDecode(text) ==
    IF \E i \in 1..Len(text) : text[i] >= 128 THEN None
    ELSE LET scan == ScanDigits(text, <<>>, 0)
             bytes == b64decode(scan.digits \o Repeat(PAD, (4 - (Len(scan.digits) % 4)) % 4))
         IN  IF ~scan.complete THEN None
             ELSE IF ~Utf8Valid(bytes) THEN None
             ELSE <<utf8_decode(bytes)>>

\* "missing_padding = len(original_content) % 4; if missing_padding:
\*  original_content += '=' * (4 - missing_padding)"
Padded(original_content) ==
    IF Len(original_content) % 4 # 0
    THEN original_content \o Repeat(PAD, 4 - (Len(original_content) % 4))
    ELSE original_content

\* [line.strip() for line in decoded_content.split('\n') if line.strip()]
StrippedLines(decoded_content) ==
    LET lines == split(decoded_content, <<LF>>)
        kept == {i \in 1..Len(lines) : strip(lines[i]) # <<>>}
        pick[i \in 0..Len(lines)] ==
            IF i = 0 THEN <<>>
            ELSE IF i \in kept THEN Append(pick[i - 1], strip(lines[i]))
            ELSE pick[i - 1]
    IN  pick[Len(lines)]

\* fix_subscription_file on a file with the given content: the return value
\* and the output file (<<>> when none is written).
Fix(content) ==
    LET original_content == Padded(strip(content))
        attempt == TryDecode(original_content)
        decoded_content == IF attempt = None THEN original_content ELSE attempt[1]
        fix_nodes == StrippedLines(decoded_content)
    IN  IF fix_nodes = <<>>
        THEN [returns |-> FALSE, file |-> <<>>]
        ELSE [returns |-> TRUE,
              file |-> <<b64encode(utf8_encode(join(<<CR, LF>>, fix_nodes)))>>]

FixInit ==
    /\ fix_pc = "start"
    /\ input_form \in {"plaintext", "base64"}
    /\ input_text \in FixTexts
    /\ input_file = IF input_form = "base64" THEN b64encode(utf8_encode(input_text))
                    ELSE input_text
    /\ fixed = [returns |-> FALSE, file |-> <<>>]
    /\ refixed = [returns |-> FALSE, file |-> <<>>]

\* fix_subscription_file(input_file, output_file)
fix_subscription_file ==
    /\ fix_pc = "start"
    /\ fixed' = Fix(input_file)
    /\ fix_pc' = "fixed"
    /\ UNCHANGED <<input_form, input_text, input_file, refixed>>
    /\ UNCHANGED notFix

\* fix_subscription_file applied to the file it has written.
FixAgain ==
    /\ fix_pc = "fixed"
    /\ fixed.file # <<>>
    /\ refixed' = Fix(fixed.file[1])
    /\ fix_pc' = "refixed"
    /\ UNCHANGED <<input_form, input_text, input_file, fixed>>
    /\ UNCHANGED notFix

(***************************************************************************)
(* Properties of fix_subscription_file                                     *)
(***************************************************************************)

\* The non-blank, stripped lines the input holds.
InputLines == StrippedLines(strip(input_text))

\* C29: for an input holding a Base64 subscription or a plaintext node list
\* with a non-blank line, the output decodes to the input's non-blank,
\* stripped lines in their order joined by CR LF, and fixing the output again
\* gives the same content; for an input without a non-blank line the
\* function returns False and writes no file.
C29_FixIdempotent ==
    /\ (fix_pc # "start" /\ InputLines # <<>>) =>
          /\ fixed.returns
          /\ fixed.file # <<>>
          /\ utf8_decode(b64decode(fixed.file[1])) = join(<<CR, LF>>, InputLines)
    /\ (fix_pc # "start" /\ InputLines = <<>>) =>
          /\ ~fixed.returns
          /\ fixed.file = <<>>
    /\ fix_pc = "refixed" => refixed = fixed

(***************************************************************************)
(* Specifications                                                          *)
(***************************************************************************)
MergeNext ==
    \/ MergeBegin
    \/ \E i \in 1..Len(SourceUrls) : FetchTaskDone(i)
    \/ DispatchFault
    \/ SerialFetch
    \/ MergeCollect

InitMerge == MergeInit /\ FetchIdle /\ SelectIdle /\ EncodeIdle /\ PoolIdle /\ FilterIdle /\ ExtractIdle /\ DecodeIdle /\ ProbeIdle /\ MainIdle /\ LatencyIdle /\ FixIdle

SpecMerge == InitMerge /\ [][MergeNext]_vars

FetchNext == FetchBegin \/ Attempt \/ Backoff \/ FetchGiveUp

InitFetch == FetchInit /\ MergeIdle /\ SelectIdle /\ EncodeIdle /\ PoolIdle /\ FilterIdle /\ ExtractIdle /\ DecodeIdle /\ ProbeIdle /\ MainIdle /\ LatencyIdle /\ FixIdle

SpecFetch == InitFetch /\ [][FetchNext]_vars

\* The requests and the sleeps return (each has a timeout), so the loop goes on.
FairSpecFetch == SpecFetch /\ WF_vars(FetchNext)

SelectNext ==
    \/ \E i \in 1..Cardinality(SelectPool) : ProbeDone(i)
    \/ BatchCollected
    \/ SelectBest
    \/ NoBestNodes
    \/ filter_fastest_nodes

InitSelect == SelectInit /\ MergeIdle /\ FetchIdle /\ EncodeIdle /\ PoolIdle /\ FilterIdle /\ ExtractIdle /\ DecodeIdle /\ ProbeIdle /\ MainIdle /\ LatencyIdle /\ FixIdle

SpecSelect == InitSelect /\ [][SelectNext]_vars

EncodeNext ==
    \/ generate_subscription
    \/ generate_best_subscription
    \/ generate_subscription_file
    \/ ReadSubscription

InitEncode == EncodeInit /\ MergeIdle /\ FetchIdle /\ SelectIdle /\ PoolIdle /\ FilterIdle /\ ExtractIdle /\ DecodeIdle /\ ProbeIdle /\ MainIdle /\ LatencyIdle /\ FixIdle

SpecEncode == InitEncode /\ [][EncodeNext]_vars

PoolNext ==
    \/ PoolBegin
    \/ Submit
    \/ AllSubmitted
    \/ SubmitFault
    \/ WorkerTakes
    \/ TaskEnds
    \/ PoolExit
    \/ Drained
    \/ SerialCall
    \/ SerialReturn

InitPool == PoolInit /\ MergeIdle /\ FetchIdle /\ SelectIdle /\ EncodeIdle /\ FilterIdle /\ ExtractIdle /\ DecodeIdle /\ ProbeIdle /\ MainIdle /\ LatencyIdle /\ FixIdle

SpecPool == InitPool /\ [][PoolNext]_vars

FilterNext == _should_keep_node

InitFilter ==
    FilterInit /\ MergeIdle /\ FetchIdle /\ SelectIdle /\ EncodeIdle /\ PoolIdle /\ ExtractIdle /\ DecodeIdle /\ ProbeIdle /\ MainIdle /\ LatencyIdle /\ FixIdle

SpecFilter == InitFilter /\ [][FilterNext]_vars

ExtractNext == _extract_nodes

InitExtract ==
    ExtractInit /\ MergeIdle /\ FetchIdle /\ SelectIdle /\ EncodeIdle /\ PoolIdle /\ FilterIdle /\ DecodeIdle /\ ProbeIdle /\ MainIdle /\ LatencyIdle /\ FixIdle

SpecExtract == InitExtract /\ [][ExtractNext]_vars

DecodeNext ==
    _try_decode_base64

InitDecode ==
    DecodeInit /\ MergeIdle /\ FetchIdle /\ SelectIdle /\ EncodeIdle /\ PoolIdle /\ FilterIdle /\ ExtractIdle /\ ProbeIdle /\ MainIdle /\ LatencyIdle /\ FixIdle

SpecDecode == InitDecode /\ [][DecodeNext]_vars

ProbeNext ==
    \/ \E i \in 1..MaxBatch : ProbeOne(i)
    \/ ProbesCollected

InitProbe ==
    ProbeInit /\ MergeIdle /\ FetchIdle /\ SelectIdle /\ EncodeIdle /\ PoolIdle /\ FilterIdle /\ ExtractIdle /\ DecodeIdle /\ MainIdle /\ LatencyIdle /\ FixIdle

SpecProbe == InitProbe /\ [][ProbeNext]_vars

MainNext ==
    \/ MainMerge
    \/ MainMergeRaises
    \/ MainNoNodes
    \/ MainGenerateAll
    \/ MainProbe
    \/ MainBest
    \/ MainNoLatencies

InitMain ==
    MainInit /\ MergeIdle /\ FetchIdle /\ SelectIdle /\ EncodeIdle /\ PoolIdle /\ FilterIdle /\ ExtractIdle /\ DecodeIdle /\ ProbeIdle /\ LatencyIdle /\ FixIdle

SpecMain == InitMain /\ [][MainNext]_vars

LatencyNext ==
    \/ FirstBatch
    \/ \E t \in 1..MaxNodes : TaskStarts(t)
    \/ \E t \in 1..MaxNodes : TaskProbes(t)
    \/ \E t \in 1..MaxNodes : TaskIncrements(t)
    \/ \E t \in 1..MaxNodes : TaskReturns(t)
    \/ SliceCollected

InitLatency ==
    LatencyInit /\ MergeIdle /\ FetchIdle /\ SelectIdle /\ EncodeIdle /\ PoolIdle /\ FilterIdle /\ ExtractIdle /\ DecodeIdle /\ ProbeIdle /\ MainIdle /\ FixIdle

SpecLatency == InitLatency /\ [][LatencyNext]_vars

\* Every probe and fetch has a timeout, so a started task ends, and the pool
\* starts a queued task as soon as a thread is free.
FairSpecLatency == SpecLatency /\ WF_vars(LatencyNext)

FixNext ==
    \/ fix_subscription_file
    \/ FixAgain

InitFix ==
    FixInit /\ MergeIdle /\ FetchIdle /\ SelectIdle /\ EncodeIdle /\ PoolIdle /\ FilterIdle /\ ExtractIdle /\ DecodeIdle /\ ProbeIdle /\ MainIdle /\ LatencyIdle

SpecFix == InitFix /\ [][FixNext]_vars

====
